---- MODULE Spec2Model ----
(***************************************************************************)
(* Model of src/src/common.c: the term decoders and identifier assemblers, *)
(* the response senders, the write-echo guard server_is_writing and the    *)
(* node/attribute command handlers, driven against an abstract Node Store. *)
(***************************************************************************)
EXTENDS Integers, Sequences, FiniteSets, TLC

VARIABLES
    entity_type,        \* TRUE: the process drives a UA_Client, FALSE: a UA_Server
    server_is_writing,  \* common.c:15
    store,              \* the Node Store: node key -> [cls, hasCb, value]
    pc,                 \* "idle", "in_write" (inside UA_*_writeValue), "aborted"
    pend,               \* the handler frame suspended inside the store's write call
    last,               \* what the last command did: request, responses, store calls
    cb,                 \* the send_write_response invocation of the latest step
    caller_function,    \* common.h globals filled by handle_caller_metadata
    caller_metadata_ptr,
    caller_blocks       \* how many of the blocks handle_caller_metadata allocated are live

vars == <<entity_type, server_is_writing, store, pc, pend, last, cb,
          caller_function, caller_metadata_ptr, caller_blocks>>

(***************************************************************************)
(* Bounds of the model.                                                    *)
(***************************************************************************)
MaxLen == 2        \* longest array a Value holds
MaxVal == 1        \* payload values are 0..MaxVal
MaxIndex == 2      \* data_index values are 0..MaxIndex
MaxNode == 1       \* the store holds the numeric identifiers 1..MaxNode
MaxMeta == 1       \* caller metadata values are 1..MaxMeta

NodeKeys == 1..MaxNode

(***************************************************************************)
(* External terms (erl_interface).  A term is [t, n, e]: t its type, n its *)
(* number (integer value, float value, atom number, binary length, tuple   *)
(* arity), e the elements of a tuple.  Atom 0 is false, atom 1 is true.    *)
(***************************************************************************)
TInt(n) == [t |-> "int", n |-> n, e |-> <<>>]
TAtom(n) == [t |-> "atom", n |-> n, e |-> <<>>]
TFloat(n) == [t |-> "float", n |-> n, e |-> <<>>]
TBin(n) == [t |-> "binary", n |-> n, e |-> <<>>]
TTuple(es) == [t |-> "tuple", n |-> Len(es), e |-> es]

\* what the decoders find past the last element of a tuple
TEnd == [t |-> "end", n |-> 0, e |-> <<>>]
\* the i-th element of a tuple as the decoders meet it
Elem(term, i) == IF i \in 1..Len(term.e) THEN term.e[i] ELSE TEnd

\* variant of TupleHeaderFails: the size of the tuple is not compared
TupleHeaderFails_type_only(term, size) == term.t # "tuple"

\* ei_decode_tuple_header(...) < 0 || term_size != size
TupleHeaderFails(term, size) == term.t # "tuple" \/ term.n # size
ei_decode_ulong(term) == term.t = "int" /\ term.n >= 0
ei_decode_long(term) == term.t = "int"
ei_decode_boolean(term) == term.t = "atom" /\ term.n \in {0, 1}
ei_decode_double(term) == term.t = "float"
\* ei_get_type(...) < 0 || term_type != ERL_BINARY_EXT, negated
IsBinaryExt(term) == term.t = "binary"

(***************************************************************************)
(* Identifier assemblers.  The result is [abort, idType, ns, id].          *)
(***************************************************************************)
AssembleAbort == [abort |-> TRUE, idType |-> "none", ns |-> 0, id |-> 0]
Assembled(type, ns, id) == [abort |-> FALSE, idType |-> type, ns |-> ns, id |-> id]

\* the GUID payload: a 4-tuple of three unsigned integers and a binary of at most 8 bytes
GuidDecodes(term) ==
    /\ ~TupleHeaderFails(term, 4)
    /\ ei_decode_ulong(Elem(term, 1))
    /\ ei_decode_ulong(Elem(term, 2))
    /\ ei_decode_ulong(Elem(term, 3))
    /\ IsBinaryExt(Elem(term, 4))
    /\ Elem(term, 4).n <= 8

\* variant of NodeIdSwitch: an unknown discriminant yields the null identifier
NodeIdSwitch_lenient(node_type, ns_index, payload) ==
    IF node_type \in 0..3 /\ (IF node_type = 0 THEN ei_decode_ulong(payload)
                               ELSE IF node_type = 2 THEN GuidDecodes(payload)
                               ELSE IsBinaryExt(payload))
    THEN Assembled(CASE node_type = 0 -> "Numeric" [] node_type = 1 -> "String"
                     [] node_type = 2 -> "GUID" [] OTHER -> "ByteString",
                   ns_index, IF node_type = 2 THEN 0 ELSE payload.n)
    ELSE IF node_type \in 0..3 THEN AssembleAbort
    ELSE Assembled("Numeric", 0, 0)

\* the switch on node_type of assemble_node_id, on a 3-tuple whose first two
\* elements decoded
NodeIdSwitch(node_type, ns_index, payload) ==
    CASE node_type = 0 ->
            IF ei_decode_ulong(payload)
            THEN Assembled("Numeric", ns_index, payload.n) ELSE AssembleAbort
      [] node_type = 1 ->
            IF IsBinaryExt(payload)
            THEN Assembled("String", ns_index, payload.n) ELSE AssembleAbort
      [] node_type = 2 ->
            IF GuidDecodes(payload)
            THEN Assembled("GUID", ns_index, Elem(payload, 1).n) ELSE AssembleAbort
      [] node_type = 3 ->
            IF IsBinaryExt(payload)
            THEN Assembled("ByteString", ns_index, payload.n) ELSE AssembleAbort
      [] OTHER -> AssembleAbort

assemble_node_id(term) ==
    IF TupleHeaderFails(term, 3) THEN AssembleAbort
    ELSE IF ~ei_decode_ulong(Elem(term, 1)) THEN AssembleAbort
    ELSE IF ~ei_decode_ulong(Elem(term, 2)) THEN AssembleAbort
    ELSE NodeIdSwitch(Elem(term, 1).n, Elem(term, 2).n, Elem(term, 3))

\* same decoding, into a UA_ExpandedNodeId (namespaceUri empty, serverIndex 0)
assemble_expanded_node_id(term) ==
    IF TupleHeaderFails(term, 3) THEN AssembleAbort
    ELSE IF ~ei_decode_ulong(Elem(term, 1)) THEN AssembleAbort
    ELSE IF ~ei_decode_ulong(Elem(term, 2)) THEN AssembleAbort
    ELSE NodeIdSwitch(Elem(term, 1).n, Elem(term, 2).n, Elem(term, 3))

assemble_qualified_name(term) ==
    IF TupleHeaderFails(term, 2) THEN AssembleAbort
    ELSE IF ~ei_decode_ulong(Elem(term, 1)) THEN AssembleAbort
    ELSE IF ~IsBinaryExt(Elem(term, 2)) THEN AssembleAbort
    ELSE Assembled("QualifiedName", Elem(term, 1).n, Elem(term, 2).n)

(***************************************************************************)
(* Status codes.  send_opex_response and encode_status_code put the text   *)
(* UA_StatusCode_name gives for a code, never the number.                  *)
(***************************************************************************)
UA_STATUSCODE_GOOD == 0
\* a status code is held by its upper half-word (the lower one is zero in every
\* code named here): 0x8074
UA_STATUSCODE_BADTYPEMISMATCH == 32884
\* statuses the Node Store (open62541) answers with: 0x8034, 0x805E, 0x8035, 0x801F
\* and 0x805F
BadNodeIdUnknown == 32768 + 52
BadNodeIdExists == 32768 + 94
BadAttributeIdInvalid == 32768 + 53
BadUserAccessDenied == 32768 + 31
BadNodeClassInvalid == 32768 + 95

UA_StatusCode_name(code) ==
    CASE code = UA_STATUSCODE_GOOD -> "Good"
      [] code = UA_STATUSCODE_BADTYPEMISMATCH -> "BadTypeMismatch"
      [] code = BadNodeIdUnknown -> "BadNodeIdUnknown"
      [] code = BadNodeIdExists -> "BadNodeIdExists"
      [] code = BadAttributeIdInvalid -> "BadAttributeIdInvalid"
      [] code = BadUserAccessDenied -> "BadUserAccessDenied"
      [] code = BadNodeClassInvalid -> "BadNodeClassInvalid"
      [] OTHER -> "Unknown StatusCode"

(***************************************************************************)
(* Values (UA_Variant): empty, a scalar of a kind, or an array of a kind.  *)
(* data holds the element payloads (numbers standing for the content).     *)
(***************************************************************************)
EmptyValue == [tag |-> "empty", kind |-> "none", data |-> <<>>, dims |-> <<>>]
Scalar(kind, x) == [tag |-> "scalar", kind |-> kind, data |-> <<x>>, dims |-> <<>>]
Array(kind, xs) == [tag |-> "array", kind |-> kind, data |-> xs, dims |-> <<>>]

UA_Variant_isEmpty(v) == v.tag = "empty"
UA_Variant_isScalar(v) == v.tag = "scalar"
arrayLength(v) == IF v.tag = "array" THEN Len(v.data) ELSE 0

\* UA_TYPES index -> kind, for the indices the handlers switch on
KindOfDataType(data_type) ==
    CASE data_type = 0 -> "Boolean"
      [] data_type = 1 -> "SByte"
      [] data_type = 2 -> "Byte"
      [] data_type = 3 -> "Int16"
      [] data_type = 4 -> "UInt16"
      [] data_type = 5 -> "Int32"
      [] data_type = 6 -> "UInt32"
      [] data_type = 7 -> "Int64"
      [] data_type = 8 -> "UInt64"
      [] data_type = 9 -> "Float"
      [] data_type = 10 -> "Double"
      [] data_type = 11 -> "String"
      [] data_type = 12 -> "DateTime"
      [] data_type = 13 -> "Guid"
      [] data_type = 14 -> "ByteString"
      [] data_type = 15 -> "XmlElement"
      [] data_type = 16 -> "NodeId"
      [] data_type = 17 -> "ExpandedNodeId"
      [] data_type = 18 -> "StatusCode"
      [] data_type = 19 -> "QualifiedName"
      [] data_type = 20 -> "LocalizedText"
      [] data_type = 21 -> "ExtensionObject"
      [] data_type = 22 -> "DataValue"
      [] data_type = 23 -> "Variant"
      [] data_type = 24 -> "DiagnosticInfo"
      [] OTHER -> "Other"

\* the kinds handle_write_node_value, handle_write_node_blank_array and the value
\* readers have a case for
SupportedKinds ==
    {"Boolean", "SByte", "Byte", "Int16", "UInt16", "Int32", "UInt32", "Int64",
     "UInt64", "Float", "Double", "String", "DateTime", "Guid", "ByteString",
     "XmlElement", "NodeId", "ExpandedNodeId", "StatusCode", "QualifiedName",
     "LocalizedText", "SemanticChangeStructureDataType", "TimeString",
     "UadpNetworkMessageContentMask", "XVType", "ElementOperand"}

(***************************************************************************)
(* Outbound messages: the sequence of ei_encode_* items written to resp.   *)
(***************************************************************************)
Tok(t, n, s) == [t |-> t, n |-> n, s |-> s]

\* resp_index = sizeof(uint16_t); resp[resp_index++] = response_id; ei_encode_version
Header == <<Tok("size", 2, ""), Tok("byte", 0, "r"), Tok("version", 131, "")>>

encode_caller_metadata(fn, meta) == <<Tok("atom", 0, fn), Tok("raw", meta, "")>>

send_ok_response(fn, meta) ==
    Header \o <<Tok("tuple", 3, "")>> \o encode_caller_metadata(fn, meta)
           \o <<Tok("atom", 0, "ok")>>

\* variant of send_error_response: the tuple header of {error, reason} is left out
send_error_response_flat(fn, meta, reason) ==
    Header \o <<Tok("tuple", 3, "")>> \o encode_caller_metadata(fn, meta)
           \o <<Tok("atom", 0, "error"), Tok("atom", 0, reason)>>

send_error_response(fn, meta, reason) ==
    Header \o <<Tok("tuple", 3, "")>> \o encode_caller_metadata(fn, meta)
           \o <<Tok("tuple", 2, ""), Tok("atom", 0, "error"), Tok("atom", 0, reason)>>

send_opex_response(fn, meta, reason) ==
    Header \o <<Tok("tuple", 3, "")>> \o encode_caller_metadata(fn, meta)
           \o <<Tok("tuple", 2, ""), Tok("atom", 0, "error"),
                Tok("binary", 0, UA_StatusCode_name(reason))>>

\* payload: the items encode_data_response wrote
send_data_response(fn, meta, payload) ==
    Header \o <<Tok("tuple", 3, "")>> \o encode_caller_metadata(fn, meta)
           \o <<Tok("tuple", 2, ""), Tok("atom", 0, "ok")>> \o payload

\* what a consumer reads off a command response (items 7.. follow the token)
IsResponse(m) ==
    /\ Len(m) >= 7
    /\ SubSeq(m, 1, 3) = Header
    /\ m[4] = Tok("tuple", 3, "")
    /\ m[5].t = "atom"
    /\ m[6].t = "raw"
IsOk(m) == IsResponse(m) /\ Len(m) = 7 /\ m[7] = Tok("atom", 0, "ok")
IsOkData(m) ==
    IsResponse(m) /\ Len(m) >= 9 /\ m[7] = Tok("tuple", 2, "") /\ m[8] = Tok("atom", 0, "ok")
IsError(m) ==
    IsResponse(m) /\ Len(m) = 9 /\ m[7] = Tok("tuple", 2, "") /\ m[8] = Tok("atom", 0, "error")
IsErrorAtom(m, reason) == IsError(m) /\ m[9] = Tok("atom", 0, reason)
IsErrorStatus(m, code) == IsError(m) /\ m[9] = Tok("binary", 0, UA_StatusCode_name(code))
OkPayload(m) == SubSeq(m, 9, Len(m))

(***************************************************************************)
(* The command handlers that decode a fixed list of fields, call one Node  *)
(* Store operation and answer ok or the status: the tables give, for each  *)
(* handler, the tuple arity it requires, the fields it decodes in order    *)
(* and the Node Store operation it invokes.                                *)
(*   node, xnode, qname, binary: decoded by an assembler or ei_decode_     *)
(*     binary; a failure is errx (abort)                                   *)
(*   ulong_u, bool_u, double_u: a failure answers einval                   *)
(*   bool_i: ei_decode_boolean whose result is not looked at               *)
(***************************************************************************)
AddHandlers ==
    {"handle_add_variable_node", "handle_add_variable_type_node",
     "handle_add_object_node", "handle_add_object_type_node", "handle_add_view_node",
     "handle_add_reference_type_node", "handle_add_data_type_node"}

DeleteHandlers == {"handle_delete_reference", "handle_delete_node"}

WriteAttrHandlers ==
    {"handle_write_node_browse_name", "handle_write_node_display_name",
     "handle_write_node_description", "handle_write_node_write_mask",
     "handle_write_node_is_abstract", "handle_write_node_inverse_name",
     "handle_write_node_data_type", "handle_write_node_value_rank",
     "handle_write_node_access_level", "handle_write_node_minimum_sampling_interval",
     "handle_write_node_historizing", "handle_write_node_executable",
     "handle_write_node_event_notifier"}

SimpleHandlers == AddHandlers \cup DeleteHandlers \cup WriteAttrHandlers

HandlerPlan(h) ==
    CASE h \in {"handle_add_variable_node", "handle_add_variable_type_node",
                "handle_add_object_node"} ->
            <<"node", "node", "node", "qname", "node">>
      [] h \in {"handle_add_object_type_node", "handle_add_view_node",
                "handle_add_reference_type_node", "handle_add_data_type_node"} ->
            <<"node", "node", "node", "qname">>
      [] h = "handle_delete_reference" -> <<"node", "node", "xnode", "bool_i", "bool_i">>
      [] h = "handle_delete_node" -> <<"node", "bool_i">>
      [] h = "handle_write_node_browse_name" -> <<"node", "qname">>
      [] h \in {"handle_write_node_display_name", "handle_write_node_description",
                "handle_write_node_inverse_name"} -> <<"node", "binary", "binary">>
      [] h = "handle_write_node_data_type" -> <<"node", "node">>
      [] h \in {"handle_write_node_write_mask", "handle_write_node_value_rank",
                "handle_write_node_access_level", "handle_write_node_event_notifier"} ->
            <<"node", "ulong_u">>
      [] h \in {"handle_write_node_is_abstract", "handle_write_node_historizing",
                "handle_write_node_executable"} -> <<"node", "bool_u">>
      [] h = "handle_write_node_minimum_sampling_interval" -> <<"node", "double_u">>

\* the term_size each handler compares the tuple header with
HandlerArity(h) ==
    CASE h \in {"handle_add_variable_node", "handle_add_variable_type_node",
                "handle_add_object_node", "handle_delete_reference",
                "handle_write_node_blank_array"} -> 5
      [] h \in {"handle_add_object_type_node", "handle_add_view_node",
                "handle_add_reference_type_node", "handle_add_data_type_node",
                "handle_write_node_value"} -> 4
      [] h \in {"handle_write_node_display_name", "handle_write_node_description",
                "handle_write_node_inverse_name",
                "handle_write_node_array_dimensions"} -> 3
      [] OTHER -> 2

\* the UA_Server_* / UA_Client_* operation the handler calls (both families have
\* the same name per attribute; the name is given without the family prefix)
HandlerStoreOp(h) ==
    CASE h = "handle_add_variable_node" -> "addVariableNode"
      [] h = "handle_add_variable_type_node" -> "addVariableTypeNode"
      [] h = "handle_add_object_node" -> "addObjectNode"
      [] h = "handle_add_object_type_node" -> "addObjectTypeNode"
      [] h = "handle_add_view_node" -> "addViewNode"
      [] h = "handle_add_reference_type_node" -> "addReferenceTypeNode"
      [] h = "handle_add_data_type_node" -> "addDataTypeNode"
      [] h = "handle_delete_reference" -> "deleteReference"
      [] h = "handle_delete_node" -> "deleteNode"
      [] h = "handle_write_node_browse_name" -> "writeBrowseName"
      [] h = "handle_write_node_display_name" -> "writeDisplayName"
      [] h = "handle_write_node_description" -> "writeDescription"
      [] h = "handle_write_node_write_mask" -> "writeWriteMask"
      [] h = "handle_write_node_is_abstract" -> "writeIsAbstract"
      [] h = "handle_write_node_inverse_name" -> "writeInverseName"
      [] h = "handle_write_node_data_type" -> "writeDataType"
      [] h = "handle_write_node_value_rank" -> "writeValueRank"
      [] h = "handle_write_node_access_level" -> "writeAccessLevel"
      [] h = "handle_write_node_minimum_sampling_interval" -> "writeMinimumSamplingInterval"
      [] h = "handle_write_node_historizing" -> "writeHistorizing"
      [] h = "handle_write_node_executable" -> "writeHistorizing"
      [] h = "handle_write_node_event_notifier" -> "writeEventNotifier"

\* the node class an add handler creates
HandlerClass(h) ==
    CASE h = "handle_add_variable_node" -> "Variable"
      [] h = "handle_add_variable_type_node" -> "VariableType"
      [] h = "handle_add_object_node" -> "Object"
      [] h = "handle_add_object_type_node" -> "ObjectType"
      [] h = "handle_add_view_node" -> "View"
      [] h = "handle_add_reference_type_node" -> "ReferenceType"
      [] h = "handle_add_data_type_node" -> "DataType"

FieldDecodes(kind, term) ==
    CASE kind = "node" -> ~assemble_node_id(term).abort
      [] kind = "xnode" -> ~assemble_expanded_node_id(term).abort
      [] kind = "qname" -> ~assemble_qualified_name(term).abort
      [] kind = "binary" -> IsBinaryExt(term)
      [] kind = "ulong_u" -> ei_decode_ulong(term)
      [] kind \in {"bool_u", "bool_i"} -> ei_decode_boolean(term)
      [] kind = "double_u" -> ei_decode_double(term)

\* variant of FieldFailure: every failure that is looked at is fatal
FieldFailure_fatal(kind) == IF kind = "bool_i" THEN "ignored" ELSE "abort"

\* what a failing field does to the handler: errx, the einval answer, or nothing
FieldFailure(kind) ==
    CASE kind \in {"ulong_u", "bool_u", "double_u"} -> "einval"
      [] kind = "bool_i" -> "ignored"
      [] OTHER -> "abort"

\* decode the fields from the i-th on; dec counts the fields taken off the buffer
RECURSIVE DecodePlan(_, _, _)
DecodePlan(plan, req, i) ==
    IF i > Len(plan) THEN [res |-> "ok", dec |-> Len(plan)]
    ELSE IF FieldDecodes(plan[i], Elem(req, i)) \/ FieldFailure(plan[i]) = "ignored"
         THEN DecodePlan(plan, req, i + 1)
         ELSE [res |-> FieldFailure(plan[i]), dec |-> i - 1]

(***************************************************************************)
(* Value encoders.                                                         *)
(***************************************************************************)
\* the ei_encode_* call encode_variant_scalar_struct makes for element index of
\* the Value (index counts from 0)
encode_variant_scalar_struct(v, index) ==
    LET x == v.data[index + 1] IN
    CASE v.kind = "Boolean" -> <<Tok("boolean", x, "")>>
      [] v.kind \in {"SByte", "Int16", "Int32", "ElementOperand"} -> <<Tok("long", x, "")>>
      [] v.kind \in {"Byte", "UInt16", "UInt32", "UadpNetworkMessageContentMask"} ->
            <<Tok("ulong", x, "")>>
      [] v.kind = "Int64" -> <<Tok("longlong", x, "")>>
      [] v.kind \in {"UInt64", "DateTime"} -> <<Tok("ulonglong", x, "")>>
      [] v.kind \in {"Float", "Double"} -> <<Tok("double", x, "")>>
      [] v.kind \in {"String", "ByteString", "XmlElement", "TimeString"} ->
            <<Tok("binary", x, "")>>
      [] v.kind \in {"Guid", "NodeId", "ExpandedNodeId", "StatusCode", "QualifiedName",
                     "LocalizedText", "SemanticChangeStructureDataType", "XVType"} ->
            <<Tok("struct", x, v.kind)>>
      [] OTHER -> <<Tok("atom", 0, "error")>>

RECURSIVE EncodeElements(_, _)
EncodeElements(v, i) ==
    IF i >= arrayLength(v) THEN <<>>
    ELSE encode_variant_scalar_struct(v, i) \o EncodeElements(v, i + 1)

encode_variant_array_struct(v) ==
    <<Tok("list", arrayLength(v), "")>> \o EncodeElements(v, 0)
        \o (IF arrayLength(v) # 0 THEN <<Tok("nil_list", 0, "")>> ELSE <<>>)

\* variant of encode_variant_struct: emptiness is not looked at
encode_variant_struct_unguarded(v) ==
    IF UA_Variant_isScalar(v) THEN encode_variant_scalar_struct(v, 0)
    ELSE encode_variant_array_struct(v)

encode_variant_struct(v) ==
    IF UA_Variant_isEmpty(v) THEN <<Tok("atom", 0, "nil")>>
    ELSE IF UA_Variant_isScalar(v) THEN encode_variant_scalar_struct(v, 0)
    ELSE encode_variant_array_struct(v)

\* the items a for loop over an array writes, one after the other
RECURSIVE Flatten(_)
Flatten(ss) == IF ss = <<>> THEN <<>> ELSE Head(ss) \o Flatten(Tail(ss))

\* data: the UA_UInt32 array; data_len is its length
encode_array_dimensions_struct(data) ==
    <<Tok("list", Len(data), "")>>
        \o Flatten([i \in 1..Len(data) |-> <<Tok("ulong", data[i], "")>>])
        \o (IF Len(data) # 0 THEN <<Tok("nil_list", 0, "")>> ELSE <<>>)

\* variant of encode_server_on_the_network_struct: the capabilities list is closed
\* whatever its size
encode_server_on_the_network_struct_closed(data) ==
    LET capabilities(server) ==
            <<Tok("list", Len(server.serverCapabilities), "")>>
                \o Flatten([j \in 1..Len(server.serverCapabilities) |->
                               <<Tok("binary", server.serverCapabilities[j], "")>>])
                \o <<Tok("nil_list", 0, "")>>
        element(server) ==
            <<Tok("map", 4, ""),
              Tok("binary", 11, "server_name"), Tok("binary", server.serverName, ""),
              Tok("binary", 9, "record_id"), Tok("long", server.recordId, ""),
              Tok("binary", 13, "discovery_url"), Tok("binary", server.discoveryUrl, ""),
              Tok("binary", 12, "capabilities")>> \o capabilities(server)
    IN  <<Tok("list", Len(data), "")>>
            \o Flatten([i \in 1..Len(data) |-> element(data[i])])
            \o (IF Len(data) # 0 THEN <<Tok("nil_list", 0, "")>> ELSE <<>>)

\* data: the UA_ServerOnNetwork array; a string is held by a number that stands for
\* its bytes
encode_server_on_the_network_struct(data) ==
    LET capabilities(server) ==
            <<Tok("list", Len(server.serverCapabilities), "")>>
                \o Flatten([j \in 1..Len(server.serverCapabilities) |->
                               <<Tok("binary", server.serverCapabilities[j], "")>>])
                \o (IF Len(server.serverCapabilities) # 0
                    THEN <<Tok("nil_list", 0, "")>> ELSE <<>>)
        element(server) ==
            <<Tok("map", 4, ""),
              Tok("binary", 11, "server_name"), Tok("binary", server.serverName, ""),
              Tok("binary", 9, "record_id"), Tok("long", server.recordId, ""),
              Tok("binary", 13, "discovery_url"), Tok("binary", server.discoveryUrl, ""),
              Tok("binary", 12, "capabilities")>> \o capabilities(server)
    IN  <<Tok("list", Len(data), "")>>
            \o Flatten([i \in 1..Len(data) |-> element(data[i])])
            \o (IF Len(data) # 0 THEN <<Tok("nil_list", 0, "")>> ELSE <<>>)

\* data: the UA_ApplicationDescription array.  UA_APPLICATIONTYPE_SERVER, _CLIENT,
\* _CLIENTANDSERVER and _DISCOVERYSERVER are 0, 1, 2 and 3
encode_application_description_struct(data) ==
    LET type(t) == CASE t = 0 -> Tok("binary", 6, "server")
                     [] t = 1 -> Tok("binary", 6, "client")
                     [] t = 2 -> Tok("binary", 17, "client_and_server")
                     [] t = 3 -> Tok("binary", 16, "discovery_server")
                     [] OTHER -> Tok("binary", 7, "unknown")
        urls(description) ==
            <<Tok("list", Len(description.discoveryUrls), "")>>
                \o Flatten([j \in 1..Len(description.discoveryUrls) |->
                               <<Tok("binary", description.discoveryUrls[j], "")>>])
                \o (IF Len(description.discoveryUrls) # 0
                    THEN <<Tok("nil_list", 0, "")>> ELSE <<>>)
        element(description) ==
            <<Tok("map", 6, ""),
              Tok("binary", 6, "server"), Tok("binary", description.applicationUri, ""),
              Tok("binary", 4, "name"), Tok("binary", description.applicationName, ""),
              Tok("binary", 15, "application_uri"),
              Tok("binary", description.applicationUri, ""),
              Tok("binary", 11, "product_uri"), Tok("binary", description.productUri, ""),
              Tok("binary", 4, "type"), type(description.applicationType),
              Tok("binary", 13, "discovery_url")>> \o urls(description)
    IN  <<Tok("list", Len(data), "")>>
            \o Flatten([i \in 1..Len(data) |-> element(data[i])])
            \o (IF Len(data) # 0 THEN <<Tok("nil_list", 0, "")>> ELSE <<>>)

\* data: the UA_EndpointDescription array.  The switch on securityMode compares
\* with the UA_APPLICATIONTYPE_ constants 0..3
encode_endpoint_description_struct(data) ==
    LET mode(m) == CASE m = 0 -> Tok("binary", 7, "invalid")
                     [] m = 1 -> Tok("binary", 4, "none")
                     [] m = 2 -> Tok("binary", 4, "sign")
                     [] m = 3 -> Tok("binary", 16, "sign_and_encrypt")
                     [] OTHER -> Tok("binary", 7, "unknown")
        element(endpoint) ==
            <<Tok("map", 5, ""),
              Tok("binary", 12, "endpoint_url"), Tok("binary", endpoint.endpointUrl, ""),
              Tok("binary", 21, "transport_profile_uri"),
              Tok("binary", endpoint.transportProfileUri, ""),
              Tok("binary", 13, "security_mode"), mode(endpoint.securityMode),
              Tok("binary", 20, "security_profile_uri"),
              Tok("binary", endpoint.securityPolicyUri, ""),
              Tok("binary", 14, "security_level"), Tok("long", endpoint.securityLevel, "")>>
    IN  <<Tok("list", Len(data), "")>>
            \o Flatten([i \in 1..Len(data) |-> element(data[i])])
            \o (IF Len(data) # 0 THEN <<Tok("nil_list", 0, "")>> ELSE <<>>)

\* identifier types of UA_NodeId are 0 numeric, 3 string, 4 guid, 5 byte string
encode_node_id(id) ==
    <<Tok("tuple", 3, ""), Tok("ulong", id.ns, "")>> \o
    CASE id.idType = "Numeric" -> <<Tok("binary", 7, "integer"), Tok("ulong", id.id, "")>>
      [] id.idType = "String" -> <<Tok("binary", 6, "string"), Tok("binary", id.id, "")>>
      \* a GUID is held by its data1; the GUIDs in play have data2 = data3 = data1 and
      \* the 8 bytes of data4
      [] id.idType = "GUID" ->
            <<Tok("binary", 4, "guid"), Tok("tuple", 4, ""), Tok("ulong", id.id, ""),
              Tok("ulong", id.id, ""), Tok("ulong", id.id, ""), Tok("binary", 8, "")>>
      [] id.idType = "ByteString" ->
            <<Tok("binary", 10, "bytestring"), Tok("binary", id.id, "")>>
      [] OTHER -> <<>>

\* the term an ei_encode_* item is when it is decoded again
TermOfItem(tok) ==
    CASE tok.t \in {"ulong", "long", "longlong", "ulonglong"} -> TInt(tok.n)
      [] tok.t = "double" -> TFloat(tok.n)
      [] tok.t = "binary" -> TBin(tok.n)
      [] tok.t \in {"atom", "boolean"} -> TAtom(tok.n)
      [] OTHER -> TEnd

\* the count terms that start at item i of an encoded buffer, as the ei_decode_*
\* functions take them off it: [terms, next]
RECURSIVE DecodeTerms(_, _, _)
DecodeTerms(toks, i, count) ==
    IF count = 0 THEN [terms |-> <<>>, next |-> i]
    ELSE IF i > Len(toks) THEN [terms |-> <<TEnd>>, next |-> i]
    ELSE LET first == IF toks[i].t = "tuple"
                      THEN LET sub == DecodeTerms(toks, i + 1, toks[i].n)
                           IN [term |-> TTuple(sub.terms), next |-> sub.next]
                      ELSE [term |-> TermOfItem(toks[i]), next |-> i + 1]
             rest == DecodeTerms(toks, first.next, count - 1)
         IN [terms |-> <<first.term>> \o rest.terms, next |-> rest.next]

\* the one term an encoder wrote
DecodeTerm(toks) == DecodeTerms(toks, 1, 1).terms[1]

\* the unsolicited message of a forwarded write
send_write_data_response(nodeId, v) ==
    Header \o <<Tok("tuple", 3, ""), Tok("atom", 0, "write")>> \o encode_node_id(nodeId)
           \o encode_variant_struct(v)

IsWriteNotification(m) ==
    Len(m) >= 5 /\ SubSeq(m, 1, 3) = Header /\ m[5] = Tok("atom", 0, "write")

(***************************************************************************)
(* The Node Store.  A node is [cls, hasCb, value, historizing, executable]: *)
(* hasCb says a value callback with onWrite = send_write_response is       *)
(* registered on it; historizing and executable are the two boolean        *)
(* attributes of these names (0 false, 1 true).  The store holds the        *)
(* numeric identifiers NodeKeys of namespace 0; any other identifier names *)
(* no node of it.                                                          *)
(***************************************************************************)
NoNode ==
    [cls |-> "None", hasCb |-> FALSE, value |-> EmptyValue, historizing |-> 0,
     executable |-> 0]
NewNode(cls) ==
    [cls |-> cls, hasCb |-> FALSE, value |-> EmptyValue, historizing |-> 0,
     executable |-> 0]

NodeKey(id) ==
    IF ~id.abort /\ id.idType = "Numeric" /\ id.ns = 0 /\ id.id \in NodeKeys
    THEN id.id ELSE 0

NodeExists(s, k) == k # 0 /\ s[k].cls # "None"
HoldsValue(s, k) == NodeExists(s, k) /\ s[k].cls \in {"Variable", "VariableType"}

\* UA_Server_add*Node / UA_Client_add*Node: ext is the verdict on everything the
\* model does not hold (parent, reference type, type definition, access rights)
AddNodeStatus(s, k, ext) ==
    IF NodeExists(s, k) THEN BadNodeIdExists
    ELSE IF k = 0 THEN BadUserAccessDenied
    ELSE ext

\* the write*/read*/delete* operations on an attribute other than the value
AttributeStatus(s, k, ext) == IF ~NodeExists(s, k) THEN BadNodeIdUnknown ELSE ext

\* UA_Server_readValue / UA_Client_readValueAttribute
ReadValueStatus(s, k, ext) ==
    IF ~NodeExists(s, k) THEN BadNodeIdUnknown
    ELSE IF ~HoldsValue(s, k) THEN BadAttributeIdInvalid
    ELSE ext

\* UA_Server_writeValue / UA_Client_writeValueAttribute
WriteValueStatus(s, k, ext) ==
    IF ~NodeExists(s, k) THEN BadNodeIdUnknown
    ELSE IF ~HoldsValue(s, k) THEN BadNodeClassInvalid
    ELSE ext

\* UA_Server_setVariableNode_valueCallback: its status is not looked at
setVariableNode_valueCallback(s, k) ==
    IF NodeExists(s, k) /\ s[k].cls = "Variable"
    THEN [s EXCEPT ![k].hasCb = TRUE] ELSE s

(***************************************************************************)
(* What one handler invocation did: how it ended ("ok", "error", "abort"   *)
(* for errx or a crash, "silent" for a return without a response), the     *)
(* messages it sent, the Node Store operations it invoked, the number of   *)
(* arguments it decoded after the tuple header, the status of its last     *)
(* Node Store operation and the store it leaves.                           *)
(***************************************************************************)
NoStatus == 0 - 1

\* variant of the handler outcome: the UA_Variant_clear of an error return
\* empties the Values of the store instead of the handler's copy
Out_clears(end, msgs, ops, dec, st, s) ==
    [end |-> end, msgs |-> msgs, ops |-> ops, dec |-> dec, st |-> st,
     store |-> IF end = "error"
               THEN [k \in DOMAIN s |-> [s[k] EXCEPT !.value = EmptyValue]]
               ELSE s]

Out(end, msgs, ops, dec, st, s) ==
    [end |-> end, msgs |-> msgs, ops |-> ops, dec |-> dec, st |-> st, store |-> s]

Errx(ops, dec, st, s) == Out("abort", <<>>, ops, dec, st, s)

\* if(retval != UA_STATUSCODE_GOOD) { send_opex_response(retval); return; }
\* send_ok_response();
AnswerStatus(fn, meta, ops, dec, st, s) ==
    IF st # UA_STATUSCODE_GOOD
    THEN Out("error", <<send_opex_response(fn, meta, st)>>, ops, dec, st, s)
    ELSE Out("ok", <<send_ok_response(fn, meta)>>, ops, dec, st, s)

\* what the store does when it accepts the attribute write op with datum x on node k
WriteAttribute(op, s, k, x) ==
    CASE op = "writeHistorizing" -> [s EXCEPT ![k].historizing = x]
      [] op = "writeExecutable" -> [s EXCEPT ![k].executable = x]
      [] OTHER -> s

\* the store after the operation of an add, delete or attribute-write handler;
\* x: the datum of an attribute write
SimpleStoreAfter(h, s, k, st, et, x) ==
    LET s1 == IF st # UA_STATUSCODE_GOOD THEN s
              ELSE IF h \in AddHandlers THEN [s EXCEPT ![k] = NewNode(HandlerClass(h))]
              ELSE IF h = "handle_delete_node" THEN [s EXCEPT ![k] = NoNode]
              ELSE WriteAttribute(HandlerStoreOp(h), s, k, x)
    IN IF h = "handle_add_variable_node" /\ ~et
       THEN setVariableNode_valueCallback(s1, k) ELSE s1

SimpleOps(h, et) ==
    IF h = "handle_add_variable_node" /\ ~et
    THEN <<HandlerStoreOp(h), "setVariableNode_valueCallback">>
    ELSE <<HandlerStoreOp(h)>>

\* handle_add_*, handle_delete_* and the handle_write_node_<attribute> handlers
SimpleHandler(h, req, ext, et, fn, meta, s) ==
    IF TupleHeaderFails(req, HandlerArity(h)) THEN Errx(<<>>, 0, NoStatus, s)
    ELSE LET d == DecodePlan(HandlerPlan(h), req, 1) IN
         IF d.res = "abort" THEN Errx(<<>>, d.dec, NoStatus, s)
         ELSE IF d.res = "einval"
         THEN Out("error", <<send_error_response(fn, meta, "einval")>>, <<>>, d.dec,
                  NoStatus, s)
         ELSE LET k == NodeKey(assemble_node_id(Elem(req, 1)))
                  st == IF h \in AddHandlers THEN AddNodeStatus(s, k, ext)
                        ELSE AttributeStatus(s, k, ext)
              IN AnswerStatus(fn, meta, SimpleOps(h, et), d.dec, st,
                              SimpleStoreAfter(h, s, k, st, et, Elem(req, 2).n))

\* the dimension list read without the comparison of its arity
DecodeDimensions_lenient(term, array_dimension_size) ==
    IF term.t # "tuple" THEN "abort"
    ELSE IF \E i \in 1..array_dimension_size : ~ei_decode_ulong(Elem(term, i))
    THEN "einval"
    ELSE "ok"

\* the dimension list of handle_write_node_array_dimensions and
\* handle_write_node_blank_array: a tuple of array_dimension_size unsigned integers
DecodeDimensions(term, array_dimension_size) ==
    IF TupleHeaderFails(term, array_dimension_size) THEN "abort"
    ELSE IF \E i \in 1..array_dimension_size : ~ei_decode_ulong(Elem(term, i))
    THEN "einval"
    ELSE "ok"

handle_write_node_array_dimensions(req, ext, et, fn, meta, s) ==
    IF TupleHeaderFails(req, 3) THEN Errx(<<>>, 0, NoStatus, s)
    ELSE IF assemble_node_id(Elem(req, 1)).abort THEN Errx(<<>>, 0, NoStatus, s)
    ELSE IF ~ei_decode_ulong(Elem(req, 2))
    THEN Out("error", <<send_error_response(fn, meta, "einval")>>, <<>>, 1, NoStatus, s)
    ELSE LET dims == DecodeDimensions(Elem(req, 3), Elem(req, 2).n) IN
         IF dims = "abort" THEN Errx(<<>>, 2, NoStatus, s)
         ELSE IF dims = "einval"
         THEN Out("error", <<send_error_response(fn, meta, "einval")>>, <<>>, 2,
                  NoStatus, s)
         ELSE AnswerStatus(fn, meta, <<"writeArrayDimensions">>, 3,
                           AttributeStatus(s, NodeKey(assemble_node_id(Elem(req, 1))), ext),
                           s)

(***************************************************************************)
(* The handle_read_node_<attribute> handlers.  Their argument is the node  *)
(* identifier itself.                                                      *)
(***************************************************************************)
ReadAttrHandlers ==
    {"handle_read_node_node_id", "handle_read_node_node_class",
     "handle_read_node_browse_name", "handle_read_node_display_name",
     "handle_read_node_description", "handle_read_node_write_mask",
     "handle_read_node_is_abstract", "handle_read_node_symmetric",
     "handle_read_node_inverse_name", "handle_read_node_contains_no_loops",
     "handle_read_node_data_type", "handle_read_node_value_rank",
     "handle_read_node_array_dimensions", "handle_read_node_access_level",
     "handle_read_node_minimum_sampling_interval", "handle_read_node_historizing",
     "handle_read_node_executable", "handle_read_node_event_notifier"}

\* the data_type code the handler passes to send_data_response
ReadAttrCode(h) ==
    CASE h \in {"handle_read_node_node_id", "handle_read_node_data_type"} -> 12
      [] h = "handle_read_node_node_class" -> 3
      [] h = "handle_read_node_browse_name" -> 13
      [] h \in {"handle_read_node_display_name", "handle_read_node_description",
                "handle_read_node_inverse_name"} -> 14
      [] h \in {"handle_read_node_write_mask", "handle_read_node_value_rank"} -> 2
      [] h = "handle_read_node_minimum_sampling_interval" -> 4
      [] h = "handle_read_node_array_dimensions" -> 28
      [] h \in {"handle_read_node_access_level", "handle_read_node_event_notifier"} -> 24
      [] OTHER -> 0

\* the handlers that pass the store an out-pointer they never pointed anywhere
\* (UA_NodeId *node_id_out; ... readNodeId(entity, node_id, node_id_out))
UninitialisedOut(h) ==
    h \notin {"handle_read_node_symmetric", "handle_read_node_contains_no_loops",
              "handle_read_node_event_notifier", "handle_read_node_array_dimensions"}

\* UA_NodeClass values the switch of handle_read_node_node_class has a case for
NodeClassName(c) ==
    CASE c = 0 -> "Unspecified"
      [] c = 1 -> "Object"
      [] c = 2 -> "Variable"
      [] c = 4 -> "Method"
      [] c = 8 -> "ObjectType"
      [] c = 16 -> "VariableType"
      [] c = 32 -> "ReferenceType"
      [] c = 64 -> "DataType"
      [] c = 128 -> "View"
      [] OTHER -> ""

\* the UA_NodeClass of a node of the store
NodeClassOf(cls) ==
    CASE cls = "Object" -> 1
      [] cls = "Variable" -> 2
      [] cls = "ObjectType" -> 8
      [] cls = "VariableType" -> 16
      [] cls = "ReferenceType" -> 32
      [] cls = "DataType" -> 64
      [] cls = "View" -> 128
      [] OTHER -> 0

\* the items encode_data_response writes for a datum x under a data_type code; for
\* the codes that take data_len, x is the array and data_len its length
encode_data_response(code, x) ==
    CASE code = 0 -> <<Tok("boolean", x, "")>>
      [] code \in {1, 23, 25} -> <<Tok("long", x, "")>>
      [] code \in {2, 24, 26, 27} -> <<Tok("ulong", x, "")>>
      [] code = 4 -> <<Tok("double", x, "")>>
      [] code = 5 -> <<Tok("binary", x, "")>>
      [] code = 8 -> encode_server_on_the_network_struct(x)
      [] code = 9 -> encode_application_description_struct(x)
      [] code = 10 -> encode_endpoint_description_struct(x)
      [] code = 15 -> <<Tok("longlong", x, "")>>
      [] code = 16 -> <<Tok("ulonglong", x, "")>>
      [] code = 17 -> <<Tok("double", x, "")>>
      [] code = 28 -> encode_array_dimensions_struct(x)
      [] code = 29 -> encode_variant_struct(x)
      [] OTHER -> <<Tok("struct", x, "")>>

\* variant of send_monitored_item_delete_response: the event tuple is declared
\* with the arity of the subscription delete event
send_monitored_item_delete_response_short(subscription_id, monitored_id) ==
    Header \o <<Tok("tuple", 2, ""), Tok("atom", 0, "subscription"),
                Tok("tuple", 2, ""), Tok("atom", 0, "delete")>>
           \o encode_data_response(27, subscription_id)
           \o encode_data_response(27, monitored_id)

\* the unsolicited messages of the subscription callbacks
send_subscription_timeout_response(data, data_type) ==
    Header \o <<Tok("tuple", 2, ""), Tok("atom", 0, "subscription"),
                Tok("tuple", 2, ""), Tok("atom", 0, "timeout")>>
           \o encode_data_response(data_type, data)

send_subscription_deleted_response(data, data_type) ==
    Header \o <<Tok("tuple", 2, ""), Tok("atom", 0, "subscription"),
                Tok("tuple", 2, ""), Tok("atom", 0, "delete")>>
           \o encode_data_response(data_type, data)

send_monitored_item_response(subscription_id, monitored_id, data, data_type) ==
    Header \o <<Tok("tuple", 2, ""), Tok("atom", 0, "subscription"),
                Tok("tuple", 4, ""), Tok("atom", 0, "data")>>
           \o encode_data_response(27, subscription_id)
           \o encode_data_response(27, monitored_id)
           \o encode_data_response(data_type, data)

send_monitored_item_delete_response(subscription_id, monitored_id) ==
    Header \o <<Tok("tuple", 2, ""), Tok("atom", 0, "subscription"),
                Tok("tuple", 3, ""), Tok("atom", 0, "delete")>>
           \o encode_data_response(27, subscription_id)
           \o encode_data_response(27, monitored_id)

\* the datum UA_*_readHistorizing / UA_*_readExecutable hand back
ReadAttribute(h, s, k) ==
    IF h = "handle_read_node_historizing" THEN s[k].historizing ELSE s[k].executable

\* ub: what the use of the indeterminate pointer does, "crash" or "proceed".
\* ncls: the node class a remote server answers with (the code takes whatever
\* number arrives); a local store answers with the class of the node.
\* dims: the array dimensions the store hands back.
ReadAttrHandler(h, req, ext, ub, ncls, dims, et, fn, meta, s) ==
    LET id == assemble_node_id(req)
        k == NodeKey(id)
        st == AttributeStatus(s, k, ext)
        op == <<"readAttribute">>
        indeterminate ==
            \/ UninitialisedOut(h)
            \* free(array_dimensions) of a pointer only a successful read sets
            \/ h = "handle_read_node_array_dimensions" /\ et /\ st # UA_STATUSCODE_GOOD
    IN  IF id.abort THEN Errx(<<>>, 0, NoStatus, s)
        ELSE IF indeterminate /\ ub = "crash" THEN Errx(op, 1, st, s)
        ELSE IF st # UA_STATUSCODE_GOOD
        THEN Out("error", <<send_opex_response(fn, meta, st)>>, op, 1, st, s)
        ELSE IF h = "handle_read_node_node_class"
        THEN LET c == IF et THEN ncls ELSE NodeClassOf(s[k].cls) IN
             IF NodeClassName(c) # ""
             THEN Out("ok", <<send_data_response(fn, meta,
                                   <<Tok("string", 0, NodeClassName(c))>>)>>, op, 1, st, s)
             ELSE Out("silent", <<>>, op, 1, st, s)
        ELSE IF h \in {"handle_read_node_historizing", "handle_read_node_executable"}
        THEN Out("ok", <<send_data_response(fn, meta,
                              encode_data_response(ReadAttrCode(h), ReadAttribute(h, s, k)))>>,
                 op, 1, st, s)
        ELSE IF h = "handle_read_node_array_dimensions"
        THEN Out("ok", <<send_data_response(fn, meta,
                              encode_data_response(ReadAttrCode(h), dims))>>, op, 1, st, s)
        ELSE Out("ok", <<send_data_response(fn, meta, <<Tok("data", ReadAttrCode(h), "")>>)>>,
                 op, 1, st, s)

(***************************************************************************)
(* Value writes.                                                           *)
(***************************************************************************)
\* variant of PayloadDecode: the payload is taken as it comes
PayloadDecode_unchecked(kind, term) == "ok"

\* the payload decode of each case of the switch (data_type) of
\* handle_write_node_value
PayloadDecode(kind, term) ==
    CASE kind = "Boolean" -> IF ei_decode_boolean(term) THEN "ok" ELSE "einval"
      [] kind \in {"SByte", "Int16", "Int32", "Int64", "DateTime"} ->
            IF ei_decode_long(term) THEN "ok" ELSE "einval"
      [] kind \in {"Byte", "UInt16", "UInt32", "UInt64", "StatusCode"} ->
            IF ei_decode_ulong(term) THEN "ok" ELSE "einval"
      [] kind \in {"Float", "Double"} -> IF ei_decode_double(term) THEN "ok" ELSE "einval"
      [] kind \in {"String", "ByteString", "XmlElement"} ->
            IF IsBinaryExt(term) THEN "ok" ELSE "abort"
      [] kind = "Guid" -> IF GuidDecodes(term) THEN "ok" ELSE "abort"
      [] kind = "NodeId" -> IF assemble_node_id(term).abort THEN "abort" ELSE "ok"
      [] kind = "ExpandedNodeId" ->
            IF assemble_expanded_node_id(term).abort THEN "abort" ELSE "ok"
      [] kind = "QualifiedName" ->
            IF assemble_qualified_name(term).abort THEN "abort" ELSE "ok"
      [] kind = "LocalizedText" ->
            IF ~TupleHeaderFails(term, 2) /\ IsBinaryExt(Elem(term, 1))
                                          /\ IsBinaryExt(Elem(term, 2))
            THEN "ok" ELSE "abort"
      [] OTHER -> "abort"

\* sizeof of an element of each kind in the Value's data buffer
ElemSize(kind) ==
    CASE kind \in {"Boolean", "SByte", "Byte"} -> 1
      [] kind \in {"Int16", "UInt16"} -> 2
      [] kind \in {"Int32", "UInt32", "Float", "StatusCode"} -> 4
      [] kind \in {"Int64", "UInt64", "Double", "DateTime"} -> 8
      [] kind \in {"String", "ByteString", "XmlElement", "Guid"} -> 16
      [] kind \in {"NodeId", "QualifiedName"} -> 24
      [] kind = "LocalizedText" -> 32
      [] OTHER -> 48

\* *((UA_<kind> *)value.data + data_index) = data: the elements of the stored
\* array (counted in its own element size) the store covers
ElementsCovered(v, kind, data_index) ==
    ((data_index * ElemSize(kind)) \div ElemSize(v.kind)) ..
    ((((data_index + 1) * ElemSize(kind)) - 1) \div ElemSize(v.kind))

WriteElement(v, kind, data_index, x) ==
    [v EXCEPT !.data = [j \in 1..Len(v.data) |->
                            IF (j - 1) \in ElementsCovered(v, kind, data_index)
                            THEN x ELSE v.data[j]]]

\* a handler's outcome with the Value it read and the element indices of that
\* Value it accessed
WithAccess(out, pre, acc) ==
    [end |-> out.end, msgs |-> out.msgs, ops |-> out.ops, dec |-> out.dec,
     st |-> out.st, store |-> out.store, pre |-> pre, acc |-> acc]

\* the frame of a value-write handler at its UA_*_writeValue call
Frame(h, k, id, v, dec, ops, pre, acc) ==
    [end |-> "write", h |-> h, k |-> k, id |-> id, value |-> v, dec |-> dec,
     ops |-> ops, pre |-> pre, acc |-> acc]

\* handle_write_node_value up to its UA_*_writeValue call: an outcome, or the frame
\* ub: what a store past the end of the data buffer does, "crash" or "proceed"
\* dang: UA_Variant_setScalar(&value, &data, ...) keeps the address of the local
\* data of the case block, which is gone when the store reads it: the store finds
\* the datum ("intact") or something else ("clobbered", held as 0)
WriteNodeValueDecode(req, ext, ub, dang, et, fn, meta, s) ==
    LET id == assemble_node_id(Elem(req, 1))
        k == NodeKey(id)
        data_type == Elem(req, 2)
        data_index == Elem(req, 3)
        payload == Elem(req, 4)
        st == ReadValueStatus(s, k, ext)
        value == IF st = UA_STATUSCODE_GOOD THEN s[k].value ELSE EmptyValue
        is_null == UA_Variant_isEmpty(value)
        is_scalar == UA_Variant_isScalar(value)
        kind == KindOfDataType(data_type.n)
        covered == ElementsCovered(value, kind, data_index.n)
        einval == Out("error", <<send_error_response(fn, meta, "einval")>>, <<>>, 0,
                      NoStatus, s)
    IN  IF TupleHeaderFails(req, 4) THEN WithAccess(Errx(<<>>, 0, NoStatus, s), EmptyValue, {})
        ELSE IF id.abort THEN WithAccess(Errx(<<>>, 0, NoStatus, s), EmptyValue, {})
        ELSE IF ~ei_decode_ulong(data_type)
        THEN WithAccess([einval EXCEPT !.dec = 1], EmptyValue, {})
        ELSE IF ~ei_decode_ulong(data_index)
        THEN WithAccess([einval EXCEPT !.dec = 2], EmptyValue, {})
        ELSE IF st # UA_STATUSCODE_GOOD
        THEN WithAccess(Out("error", <<send_opex_response(fn, meta, st)>>, <<"readValue">>,
                            3, st, s), EmptyValue, {})
        ELSE IF ~is_scalar /\ ~is_null /\ arrayLength(value) <= data_index.n
        THEN WithAccess(Out("error",
                            <<send_opex_response(fn, meta, UA_STATUSCODE_BADTYPEMISMATCH)>>,
                            <<"readValue">>, 3, st, s), value, {})
        ELSE IF PayloadDecode(kind, payload) = "abort"
        THEN WithAccess(Errx(<<"readValue">>, 3, st, s), value, {})
        ELSE IF PayloadDecode(kind, payload) = "einval"
        THEN WithAccess([einval EXCEPT !.dec = 3, !.ops = <<"readValue">>, !.st = st],
                        value, {})
        ELSE IF is_scalar \/ is_null
        THEN Frame("handle_write_node_value", k, id,
                   Scalar(kind, IF dang = "intact" THEN payload.n ELSE 0), 4,
                   <<"readValue">>, value, {})
        ELSE IF (\E j \in covered : j >= arrayLength(value)) /\ ub = "crash"
        THEN WithAccess(Errx(<<"readValue">>, 4, st, s), value, covered)
        ELSE Frame("handle_write_node_value", k, id,
                   WriteElement(value, kind, data_index.n, payload.n), 4,
                   <<"readValue">>, value, covered)

\* the kinds the switch (data_type) of handle_write_node_blank_array builds an
\* array for
BlankArrayKinds ==
    {"Boolean", "SByte", "Byte", "Int16", "UInt16", "Int32", "UInt32", "Int64",
     "UInt64", "Float", "Double", "String", "DateTime", "Guid", "ByteString",
     "XmlElement", "NodeId", "ExpandedNodeId", "StatusCode", "QualifiedName",
     "LocalizedText"}

\* handle_write_node_blank_array up to its UA_*_writeValue call
WriteBlankArrayDecode(req, et, fn, meta, s) ==
    LET id == assemble_node_id(Elem(req, 1))
        data_type == Elem(req, 2)
        array_dimension_size == Elem(req, 3)
        array_raw_size == Elem(req, 4)
        kind == KindOfDataType(data_type.n)
        dims == DecodeDimensions(Elem(req, 5), array_dimension_size.n)
        einval == Out("error", <<send_error_response(fn, meta, "einval")>>, <<>>, 0,
                      NoStatus, s)
        blank == [tag |-> "array", kind |-> kind,
                  data |-> [j \in 1..array_raw_size.n |-> 0],
                  dims |-> [j \in 1..array_dimension_size.n |-> Elem(Elem(req, 5), j).n]]
    IN  IF TupleHeaderFails(req, 5) THEN WithAccess(Errx(<<>>, 0, NoStatus, s), EmptyValue, {})
        ELSE IF id.abort THEN WithAccess(Errx(<<>>, 0, NoStatus, s), EmptyValue, {})
        ELSE IF ~ei_decode_ulong(data_type)
        THEN WithAccess([einval EXCEPT !.dec = 1], EmptyValue, {})
        ELSE IF ~ei_decode_ulong(array_dimension_size)
        THEN WithAccess([einval EXCEPT !.dec = 2], EmptyValue, {})
        ELSE IF ~ei_decode_ulong(array_raw_size)
        THEN WithAccess([einval EXCEPT !.dec = 3], EmptyValue, {})
        ELSE IF kind \notin BlankArrayKinds
        THEN WithAccess(Errx(<<>>, 4, NoStatus, s), EmptyValue, {})
        ELSE IF dims = "abort" THEN WithAccess(Errx(<<>>, 4, NoStatus, s), EmptyValue, {})
        ELSE IF dims = "einval" THEN WithAccess([einval EXCEPT !.dec = 4], EmptyValue, {})
        ELSE Frame("handle_write_node_blank_array", NodeKey(id), id, blank, 5, <<>>,
                   EmptyValue, {})

(***************************************************************************)
(* The value callback and the store's value write.                         *)
(***************************************************************************)
\* send_write_response with server_is_writing = flag: the flag it leaves and the
\* messages it sends
send_write_response(flag, nodeId, v) ==
    IF flag THEN [flag |-> FALSE, msgs |-> <<>>]
    ELSE [flag |-> flag, msgs |-> <<send_write_data_response(nodeId, v)>>]

NumericId(k) == Assembled("Numeric", 0, k)

\* variant of StoreWriteValue: the store keeps the elements of v and not its array
\* dimensions
StoreWriteValue_flat(s, k, v, flag) ==
    LET s1 == [s EXCEPT ![k].value = [v EXCEPT !.dims = <<>>]] IN
    IF s[k].hasCb
    THEN [store |-> s1, ran |-> TRUE, cbk |-> send_write_response(flag, NumericId(k), v)]
    ELSE [store |-> s1, ran |-> FALSE, cbk |-> [flag |-> flag, msgs |-> <<>>]]

\* a write of v to the value of node k that the store accepts: the store runs the
\* onWrite callback of the node, if one is registered, before it returns
StoreWriteValue(s, k, v, flag) ==
    LET s1 == [s EXCEPT ![k].value = v] IN
    IF s[k].hasCb
    THEN [store |-> s1, ran |-> TRUE, cbk |-> send_write_response(flag, NumericId(k), v)]
    ELSE [store |-> s1, ran |-> FALSE, cbk |-> [flag |-> flag, msgs |-> <<>>]]

\* what the latest step had send_write_response do: who caused the write
\* ("none": the callback did not run), on which node, the flag the callback found
\* and the messages it sent
CallbackRun(origin, k, observed, msgs) ==
    [origin |-> origin, node |-> k, observed |-> observed, msgs |-> msgs]
NoCallbackRun == CallbackRun("none", 0, FALSE, <<>>)

(***************************************************************************)
(* Value reads.                                                            *)
(***************************************************************************)
\* the data_type code handle_read_node_value_by_index gives send_data_response
\* for an element of each kind; 0 - 1: the kind has no branch
ByIndexCode(kind) ==
    CASE kind = "Boolean" -> 0
      [] kind \in {"SByte", "Int16", "Int32"} -> 1
      [] kind \in {"Byte", "UInt16", "UInt32"} -> 2
      [] kind \in {"Int64", "DateTime"} -> 15
      [] kind = "UInt64" -> 16
      [] kind = "Float" -> 17
      [] kind = "Double" -> 4
      [] kind \in {"String", "ByteString", "XmlElement"} -> 5
      [] kind = "Guid" -> 18
      [] kind = "NodeId" -> 12
      [] kind = "ExpandedNodeId" -> 19
      [] kind = "StatusCode" -> 20
      [] kind = "QualifiedName" -> 13
      [] kind = "LocalizedText" -> 14
      [] OTHER -> 0 - 1

AllElements(v) ==
    IF UA_Variant_isScalar(v) THEN {0} ELSE {j \in 0..MaxLen + 1 : j < arrayLength(v)}

handle_read_node_value(req, ext, et, fn, meta, s) ==
    LET id == assemble_node_id(Elem(req, 1))
        st == ReadValueStatus(s, NodeKey(id), ext)
        value == IF st = UA_STATUSCODE_GOOD THEN s[NodeKey(id)].value ELSE EmptyValue
    IN  IF TupleHeaderFails(req, 2) THEN WithAccess(Errx(<<>>, 0, NoStatus, s), EmptyValue, {})
        ELSE IF id.abort THEN WithAccess(Errx(<<>>, 0, NoStatus, s), EmptyValue, {})
        ELSE IF ~ei_decode_ulong(Elem(req, 2))
        THEN WithAccess(Out("error", <<send_error_response(fn, meta, "einval")>>, <<>>, 1,
                            NoStatus, s), EmptyValue, {})
        ELSE IF st # UA_STATUSCODE_GOOD
        THEN WithAccess(Out("error", <<send_opex_response(fn, meta, st)>>, <<"readValue">>,
                            2, st, s), EmptyValue, {})
        \* send_data_response(value, 29, 0): data_index is not looked at
        ELSE WithAccess(Out("ok", <<send_data_response(fn, meta, encode_variant_struct(value))>>,
                            <<"readValue">>, 2, st, s), value, AllElements(value))

handle_read_node_value_by_index(req, ext, et, fn, meta, s) ==
    LET id == assemble_node_id(Elem(req, 1))
        st == ReadValueStatus(s, NodeKey(id), ext)
        value == IF st = UA_STATUSCODE_GOOD THEN s[NodeKey(id)].value ELSE EmptyValue
        data_index == IF UA_Variant_isScalar(value) THEN 0 ELSE Elem(req, 2).n
        code == ByIndexCode(value.kind)
    IN  IF TupleHeaderFails(req, 2) THEN WithAccess(Errx(<<>>, 0, NoStatus, s), EmptyValue, {})
        ELSE IF id.abort THEN WithAccess(Errx(<<>>, 0, NoStatus, s), EmptyValue, {})
        ELSE IF ~ei_decode_ulong(Elem(req, 2))
        THEN WithAccess(Out("error", <<send_error_response(fn, meta, "einval")>>, <<>>, 1,
                            NoStatus, s), EmptyValue, {})
        ELSE IF st # UA_STATUSCODE_GOOD
        THEN WithAccess(Out("error", <<send_opex_response(fn, meta, st)>>, <<"readValue">>,
                            2, st, s), EmptyValue, {})
        ELSE IF UA_Variant_isEmpty(value)
        THEN WithAccess(Out("error", <<send_error_response(fn, meta, "nil")>>,
                            <<"readValue">>, 2, st, s), value, {})
        ELSE IF ~UA_Variant_isScalar(value) /\ arrayLength(value) <= data_index
        THEN WithAccess(Out("error",
                            <<send_opex_response(fn, meta, UA_STATUSCODE_BADTYPEMISMATCH)>>,
                            <<"readValue">>, 2, st, s), value, {})
        ELSE IF code < 0
        THEN WithAccess(Out("error", <<send_error_response(fn, meta, "eagain")>>,
                            <<"readValue">>, 2, st, s), value, {})
        ELSE WithAccess(Out("ok", <<send_data_response(fn, meta,
                                     encode_data_response(code, value.data[data_index + 1]))>>,
                            <<"readValue">>, 2, st, s), value, {data_index})

\* UA_Variant *value is never pointed anywhere: ub says what its use does, "crash" or
\* "proceed".  A read through the null or sentinel data pointer of a Value without
\* elements faults.
handle_read_node_value_by_data_type(req, ext, ub, et, fn, meta, s) ==
    LET id == assemble_node_id(Elem(req, 1))
        st == ReadValueStatus(s, NodeKey(id), ext)
        value == IF st = UA_STATUSCODE_GOOD THEN s[NodeKey(id)].value ELSE EmptyValue
        data_type == Elem(req, 2)
        code == ByIndexCode(KindOfDataType(data_type.n))
    IN  IF TupleHeaderFails(req, 2) THEN WithAccess(Errx(<<>>, 0, NoStatus, s), EmptyValue, {})
        ELSE IF id.abort THEN WithAccess(Errx(<<>>, 0, NoStatus, s), EmptyValue, {})
        ELSE IF ~ei_decode_ulong(data_type)
        THEN WithAccess(Out("error", <<send_error_response(fn, meta, "einval")>>, <<>>, 1,
                            NoStatus, s), EmptyValue, {})
        ELSE IF ub = "crash" THEN WithAccess(Errx(<<"readValue">>, 2, st, s), value, {})
        ELSE IF st # UA_STATUSCODE_GOOD
        THEN WithAccess(Out("error", <<send_opex_response(fn, meta, st)>>, <<"readValue">>,
                            2, st, s), EmptyValue, {})
        \* UA_Variant_isEmpty(value) && value->type == &UA_TYPES[data_type]: an empty
        \* Value has no type, so the branch that answers nil is never taken
        ELSE IF code < 0
        THEN WithAccess(Out("error", <<send_error_response(fn, meta, "eagain")>>,
                            <<"readValue">>, 2, st, s), value, {})
        ELSE IF Len(value.data) = 0
        THEN WithAccess(Errx(<<"readValue">>, 2, st, s), value, {0})
        ELSE WithAccess(Out("ok", <<send_data_response(fn, meta,
                                     encode_data_response(code, value.data[1]))>>,
                            <<"readValue">>, 2, st, s), value, {0})

(***************************************************************************)
(* Inputs.  Two scopes draw the commands and their arguments: "protocol"   *)
(* (well-formed value traffic on the store, with a peer writing too) and   *)
(* "command" (every handler, with well-formed and malformed arguments).    *)
(***************************************************************************)
NodeTerm(k) == TTuple(<<TInt(0), TInt(0), TInt(k)>>)
\* the nodes of the store and one identifier that names no node
KnownNodeTerms == {NodeTerm(k) : k \in 1..MaxNode + 1}
GuidTerm == TTuple(<<TInt(1), TInt(1), TInt(1), TBin(8)>>)

\* identifier terms of every discriminant, with fitting and unfitting payloads
NodeTermUniverse ==
    KnownNodeTerms \cup
    {TTuple(<<TInt(0), TInt(0), TAtom(1)>>),
     TTuple(<<TInt(1), TInt(0), TBin(1)>>), TTuple(<<TInt(1), TInt(0), TInt(1)>>),
     TTuple(<<TInt(2), TInt(0), GuidTerm>>), TTuple(<<TInt(2), TInt(0), TBin(1)>>),
     TTuple(<<TInt(3), TInt(0), TBin(1)>>), TTuple(<<TInt(3), TInt(0), TInt(1)>>),
     TTuple(<<TInt(4), TInt(0), TInt(1)>>),
     TTuple(<<TAtom(0), TInt(0), TInt(1)>>), TTuple(<<TInt(0), TAtom(0), TInt(1)>>),
     TTuple(<<TInt(0), TInt(0)>>), TTuple(<<TInt(0), TInt(0), TInt(1), TInt(1)>>),
     TInt(0)}

GoodField(kind) ==
    CASE kind \in {"node", "xnode"} -> NodeTerm(1)
      [] kind = "qname" -> TTuple(<<TInt(0), TBin(1)>>)
      [] kind = "binary" -> TBin(1)
      [] kind = "ulong_u" -> TInt(1)
      [] kind \in {"bool_u", "bool_i"} -> TAtom(1)
      [] kind = "double_u" -> TFloat(1)

\* the terms tried in the i-th field while the other fields are well-formed
FieldTerms(kind, i) ==
    CASE kind = "node" /\ i = 1 -> NodeTermUniverse
      [] kind = "xnode" -> NodeTermUniverse
      [] kind = "node" -> {NodeTerm(1), TTuple(<<TInt(4), TInt(0), TInt(1)>>)}
      [] kind = "qname" -> {GoodField(kind), TTuple(<<TInt(0), TInt(1)>>), TInt(0)}
      [] kind = "binary" -> {GoodField(kind), TInt(0)}
      [] kind = "ulong_u" -> {GoodField(kind), TAtom(1), TInt(0 - 1), TFloat(1)}
      [] kind \in {"bool_u", "bool_i"} -> {GoodField(kind), TAtom(2), TInt(1)}
      [] kind = "double_u" -> {GoodField(kind), TAtom(1), TBin(1)}

\* a term in place of a whole argument tuple: tuples of a wrong arity and a non-tuple
WrongArity(good) ==
    {TTuple(Append(good, TInt(0))), TTuple(SubSeq(good, 1, Len(good) - 1)), TInt(0)}

PlanRequests(plan) ==
    LET good == [i \in 1..Len(plan) |-> GoodField(plan[i])] IN
    {TTuple([good EXCEPT ![i] = t]) : <<i, t>> \in
        UNION {{<<j, u>> : u \in FieldTerms(plan[j], j)} : j \in 1..Len(plan)}}
    \cup WrongArity(good)

SimpleRequests(scope, h) ==
    IF scope = "command" THEN PlanRequests(HandlerPlan(h))
    ELSE {TTuple([i \in 1..Len(HandlerPlan(h)) |->
                    IF i = 1 THEN n ELSE GoodField(HandlerPlan(h)[i])]) :
             n \in KnownNodeTerms}

\* UA_TYPES indices in play: Int32, Int64 and ExtensionObject (no handler has a case
\* for it)
DataTypes(scope) == IF scope = "command" THEN {5, 7, 21} ELSE {5}

WriteValueRequests(scope) ==
    LET wellFormed ==
            {TTuple(<<n, TInt(dt), TInt(i), TInt(x)>>) :
                n \in KnownNodeTerms, dt \in DataTypes(scope), i \in 0..MaxIndex,
                x \in 1..MaxVal}
        good == <<NodeTerm(1), TInt(5), TInt(0), TInt(1)>>
    IN IF scope = "command"
       THEN wellFormed
            \cup {TTuple([good EXCEPT ![1] = TTuple(<<TInt(4), TInt(0), TInt(1)>>)]),
                  TTuple([good EXCEPT ![2] = TAtom(1)]),
                  TTuple([good EXCEPT ![3] = TAtom(1)]),
                  TTuple([good EXCEPT ![4] = TAtom(1)]),
                  TTuple([good EXCEPT ![4] = TBin(1)]),
                  TTuple([good EXCEPT ![2] = TInt(11), ![4] = TInt(1)]),
                  TTuple([good EXCEPT ![2] = TInt(11), ![4] = TBin(1)])}
            \cup WrongArity(good)
       ELSE wellFormed

BlankArrayRequests(scope) ==
    LET wellFormed ==
            {TTuple(<<n, TInt(dt), TInt(0), TInt(len), TTuple(<<>>)>>) :
                n \in KnownNodeTerms, dt \in DataTypes(scope), len \in 0..MaxLen}
        good == <<NodeTerm(1), TInt(5), TInt(1), TInt(MaxLen), TTuple(<<TInt(MaxLen)>>)>>
    IN IF scope = "command"
       THEN wellFormed
            \cup {TTuple(good),
                  TTuple([good EXCEPT ![1] = TInt(0)]),
                  TTuple([good EXCEPT ![2] = TAtom(1)]),
                  TTuple([good EXCEPT ![3] = TAtom(1)]),
                  TTuple([good EXCEPT ![4] = TAtom(1)]),
                  TTuple([good EXCEPT ![5] = TTuple(<<>>)]),
                  TTuple([good EXCEPT ![3] = TInt(2),
                                      ![5] = TTuple(<<TInt(1), TInt(1), TInt(1)>>)]),
                  TTuple([good EXCEPT ![5] = TTuple(<<TAtom(1)>>)])}
            \cup WrongArity(good)
       ELSE wellFormed

ReadValueRequests(scope) ==
    {TTuple(<<n, TInt(i)>>) : n \in KnownNodeTerms, i \in 0..MaxIndex}
    \cup (IF scope = "command"
          THEN {TTuple(<<NodeTerm(1), TAtom(1)>>),
                TTuple(<<TTuple(<<TInt(4), TInt(0), TInt(1)>>), TInt(0)>>)}
               \cup WrongArity(<<NodeTerm(1), TInt(0)>>)
          ELSE {})

ReadByDataTypeRequests ==
    {TTuple(<<n, TInt(dt)>>) : n \in KnownNodeTerms, dt \in DataTypes("command")}
    \cup {TTuple(<<NodeTerm(1), TAtom(1)>>),
          TTuple(<<TTuple(<<TInt(4), TInt(0), TInt(1)>>), TInt(5)>>)}
    \cup WrongArity(<<NodeTerm(1), TInt(5)>>)

ArrayDimensionsRequests ==
    LET good == <<NodeTerm(1), TInt(1), TTuple(<<TInt(1)>>)>> IN
    {TTuple(good),
     TTuple([good EXCEPT ![1] = NodeTerm(MaxNode + 1)]),
     TTuple([good EXCEPT ![1] = TInt(0)]),
     TTuple([good EXCEPT ![2] = TAtom(1)]),
     TTuple([good EXCEPT ![3] = TTuple(<<>>)]),
     TTuple([good EXCEPT ![2] = TInt(2), ![3] = TTuple(<<TInt(1), TInt(1), TInt(1)>>)]),
     TTuple([good EXCEPT ![3] = TTuple(<<TAtom(1)>>)])}
    \cup WrongArity(good)

\* verdicts of the store on what the model does not hold
\* the arrays the collection encoders are handed, by data_type code: 28 array
\* dimensions, 8 UA_ServerOnNetwork, 9 UA_ApplicationDescription, 10
\* UA_EndpointDescription.  The strings of an element are those of its number r;
\* the j-th string of a nested array is j; type 4 is none of the enumerated ones.
Collections(code) ==
    LET UpTo(S) == UNION {[1..n -> S] : n \in 0..MaxLen}
        strings == {[j \in 1..m |-> j] : m \in 0..MaxLen}
    IN  CASE code = 28 -> UpTo(0..MaxVal)
          [] code = 8 ->
                UpTo({[serverName |-> r, recordId |-> r, discoveryUrl |-> r,
                       serverCapabilities |-> c] : r \in 0..MaxVal, c \in strings})
          [] code = 9 ->
                UpTo({[applicationUri |-> r, applicationName |-> r, productUri |-> r,
                       applicationType |-> t, discoveryUrls |-> c] :
                         r \in 0..MaxVal, t \in {0, 4}, c \in strings})
          [] code = 10 ->
                UpTo({[endpointUrl |-> r, transportProfileUri |-> r, securityMode |-> m,
                       securityPolicyUri |-> r, securityLevel |-> r] :
                         r \in 0..MaxVal, m \in {1, 4}})
          [] OTHER -> {}

StoreVerdicts == {UA_STATUSCODE_GOOD, BadUserAccessDenied}
AttributeVerdicts == {UA_STATUSCODE_GOOD, BadAttributeIdInvalid}
UndefinedOutcomes == {"crash", "proceed"}
DanglingOutcomes == {"intact", "clobbered"}
\* node classes a remote server may answer with: the enumerated ones and one other
RemoteNodeClasses == {0, 1, 2, 4, 8, 16, 32, 64, 128, 3}
\* values a peer writes: of kinds the encoders have a case for and of one they lack
PeerValues ==
    {Scalar("Int32", x) : x \in 0..MaxVal} \cup {Scalar("ExtensionObject", 0)}

ValueWriters == {"handle_write_node_value", "handle_write_node_blank_array"}
ValueReaders ==
    {"handle_read_node_value", "handle_read_node_value_by_index",
     "handle_read_node_value_by_data_type"}

Commands(scope) ==
    IF scope = "command"
    THEN SimpleHandlers \cup ReadAttrHandlers \cup ValueWriters \cup ValueReaders
         \cup {"handle_write_node_array_dimensions", "handle_test"}
    ELSE IF scope = "events"
    THEN {"handle_add_variable_node", "handle_write_node_blank_array",
          "handle_read_node_value", "handle_read_node_array_dimensions",
          "handle_find_servers_on_network", "handle_find_servers", "handle_get_endpoints"}
    ELSE {"handle_add_variable_node", "handle_add_object_node", "handle_delete_node",
          "handle_read_node_value_by_index"} \cup ValueWriters

(***************************************************************************)
(* The state machine.                                                      *)
(***************************************************************************)
\* meta: the caller metadata term that came with the command
Record(h, req, o, meta) ==
    [h |-> h, req |-> req, end |-> o.end, msgs |-> o.msgs, ops |-> o.ops,
     dec |-> o.dec, st |-> o.st, pre |-> o.pre, acc |-> o.acc, meta |-> meta]

NoFrame == Frame("", 0, AssembleAbort, EmptyValue, 0, <<>>, EmptyValue, {})
Fresh(h, end, meta) ==
    Record(h, TEnd, WithAccess(Out(end, <<>>, <<>>, 0, NoStatus, <<>>), EmptyValue, {}),
           meta)

\* free(caller_function); free(caller_metadata_ptr);
free_caller_metadata(blocks) == blocks - 2

\* the dispatcher calls free_caller_metadata when the handler has returned; errx
\* ends the process with the blocks as they are
ReleaseAfter(end, blocks) ==
    IF end = "abort" THEN blocks ELSE free_caller_metadata(blocks)

Init ==
    /\ entity_type \in BOOLEAN
    /\ server_is_writing = FALSE
    /\ store = [k \in NodeKeys |-> NoNode]
    /\ pc = "idle"
    /\ pend = NoFrame
    /\ last = Fresh("", "none", 0)
    /\ cb = NoCallbackRun
    /\ caller_function = ""
    /\ caller_metadata_ptr = 0
    /\ caller_blocks = 0

\* variant of handle_caller_metadata: the metadata of the first command is kept
\* (the copy is made only while caller_metadata_ptr is NULL)
handle_caller_metadata_first(scope) ==
    /\ pc = "idle"
    /\ \E cmd \in Commands(scope),
          meta \in 0..(IF scope = "events" THEN MaxMeta + 1 ELSE MaxMeta) :
        /\ caller_function' = cmd
        /\ caller_metadata_ptr' = IF caller_metadata_ptr = 0 THEN meta
                                  ELSE caller_metadata_ptr
        /\ caller_blocks' = caller_blocks + (IF meta = 0 THEN 1 ELSE 2)
        /\ pc' = IF meta = 0 THEN "aborted" ELSE "dispatch"
        /\ last' = Fresh(cmd, IF meta = 0 THEN "abort" ELSE "none", meta)
    /\ cb' = NoCallbackRun
    /\ UNCHANGED <<entity_type, server_is_writing, store, pend>>

\* the dispatcher takes a command off its input: handle_caller_metadata keeps the
\* command name and the caller metadata term (metadata 0: a term ei_skip_term
\* rejects).  The commands of the events scope come with one more metadata term,
\* so that consecutive commands differ in it.
handle_caller_metadata(scope) ==
    /\ pc = "idle"
    /\ \E cmd \in Commands(scope),
          meta \in 0..(IF scope = "events" THEN MaxMeta + 1 ELSE MaxMeta) :
        /\ caller_function' = cmd
        /\ caller_metadata_ptr' = meta
        \* errx comes after the first malloc and before the second
        /\ caller_blocks' = caller_blocks + (IF meta = 0 THEN 1 ELSE 2)
        /\ pc' = IF meta = 0 THEN "aborted" ELSE "dispatch"
        /\ last' = Fresh(cmd, IF meta = 0 THEN "abort" ELSE "none", meta)
    /\ cb' = NoCallbackRun
    /\ UNCHANGED <<entity_type, server_is_writing, store, pend>>

\* a handler returns (or the process ends in errx) with outcome o
Done(h, req, o) ==
    /\ last' = Record(h, req, o, last.meta)
    /\ caller_blocks' = ReleaseAfter(o.end, caller_blocks)
    /\ store' = o.store
    /\ pc' = IF o.end = "abort" THEN "aborted" ELSE "idle"
    /\ cb' = NoCallbackRun
    /\ UNCHANGED <<entity_type, server_is_writing, pend, caller_function,
                   caller_metadata_ptr>>

Running(h) == pc = "dispatch" /\ caller_function = h

HandleTest ==
    /\ Running("handle_test")
    /\ Done("handle_test", TEnd,
            WithAccess(Out("ok", <<send_ok_response(caller_function, caller_metadata_ptr)>>,
                           <<>>, 0, NoStatus, store), EmptyValue, {}))

HandleSimple(scope) ==
    \E h \in SimpleHandlers, ext \in StoreVerdicts :
        /\ Running(h)
        /\ \E req \in SimpleRequests(scope, h) :
            Done(h, req, WithAccess(SimpleHandler(h, req, ext, entity_type, caller_function,
                                                  caller_metadata_ptr, store),
                                    EmptyValue, {}))

HandleWriteNodeArrayDimensions ==
    /\ Running("handle_write_node_array_dimensions")
    /\ \E req \in ArrayDimensionsRequests, ext \in StoreVerdicts :
        Done("handle_write_node_array_dimensions", req,
             WithAccess(handle_write_node_array_dimensions(req, ext, entity_type,
                            caller_function, caller_metadata_ptr, store), EmptyValue, {}))

HandleReadAttr ==
    \E h \in ReadAttrHandlers, ext \in AttributeVerdicts, ub \in UndefinedOutcomes :
        /\ Running(h)
        /\ \E req \in NodeTermUniverse, ncls \in RemoteNodeClasses,
              dims \in IF h = "handle_read_node_array_dimensions"
                       THEN Collections(ReadAttrCode(h)) ELSE {<<>>} :
            Done(h, req, WithAccess(ReadAttrHandler(h, req, ext, ub, ncls, dims, entity_type,
                                        caller_function, caller_metadata_ptr, store),
                                    EmptyValue, {}))

HandleReadNodeValue(scope) ==
    /\ Running("handle_read_node_value")
    /\ \E req \in ReadValueRequests(scope), ext \in StoreVerdicts :
        Done("handle_read_node_value", req,
             handle_read_node_value(req, ext, entity_type, caller_function,
                                    caller_metadata_ptr, store))

HandleReadNodeValueByIndex(scope) ==
    /\ Running("handle_read_node_value_by_index")
    /\ \E req \in ReadValueRequests(scope), ext \in StoreVerdicts :
        Done("handle_read_node_value_by_index", req,
             handle_read_node_value_by_index(req, ext, entity_type, caller_function,
                                             caller_metadata_ptr, store))

HandleReadNodeValueByDataType ==
    /\ Running("handle_read_node_value_by_data_type")
    /\ \E req \in ReadByDataTypeRequests, ext \in StoreVerdicts, ub \in UndefinedOutcomes :
        Done("handle_read_node_value_by_data_type", req,
             handle_read_node_value_by_data_type(req, ext, ub, entity_type,
                 caller_function, caller_metadata_ptr, store))

\* variants of FlagAtWrite: the flag left as it is, and the flag set for a remote
\* target too
FlagAtWrite_unset(et, flag) == flag
FlagAtWrite_always(et, flag) == TRUE

\* if(entity_type) retval = UA_Client_writeValueAttribute(...);
\* else { server_is_writing = true; retval = UA_Server_writeValue(...); }
\* the flag as the handler leaves it on entering the store's write
FlagAtWrite(et, flag) == IF et THEN flag ELSE TRUE

\* the handler reaches its UA_*_writeValue call with frame f
IssueWrite(req, f) ==
    /\ pc' = "in_write"
    /\ pend' = f
    /\ server_is_writing' = FlagAtWrite(entity_type, server_is_writing)
    /\ last' = [h |-> f.h, req |-> req, end |-> "none", msgs |-> <<>>, ops |-> f.ops,
                dec |-> f.dec, st |-> NoStatus, pre |-> f.pre, acc |-> f.acc,
                meta |-> last.meta]
    /\ cb' = NoCallbackRun
    /\ UNCHANGED <<entity_type, store, caller_function, caller_metadata_ptr,
                   caller_blocks>>

HandleWriteNodeValue(scope) ==
    /\ Running("handle_write_node_value")
    /\ \E req \in WriteValueRequests(scope), ext \in StoreVerdicts,
          ub \in UndefinedOutcomes, dang \in DanglingOutcomes :
        LET o == WriteNodeValueDecode(req, ext, ub, dang, entity_type, caller_function,
                                      caller_metadata_ptr, store)
        IN IF o.end = "write" THEN IssueWrite(req, o)
           ELSE Done("handle_write_node_value", req, o)

HandleWriteNodeBlankArray(scope) ==
    /\ Running("handle_write_node_blank_array")
    /\ \E req \in BlankArrayRequests(scope) :
        LET o == WriteBlankArrayDecode(req, entity_type, caller_function,
                                       caller_metadata_ptr, store)
        IN IF o.end = "write" THEN IssueWrite(req, o)
           ELSE Done("handle_write_node_blank_array", req, o)

\* UA_*_writeValue returns to the handler, which answers and returns.  A write the
\* store accepts has run the node's onWrite callback inside the call.
StoreWriteReturns ==
    /\ pc = "in_write"
    /\ \E ext \in StoreVerdicts :
        LET st == WriteValueStatus(store, pend.k, ext)
            w == IF st = UA_STATUSCODE_GOOD
                 THEN StoreWriteValue(store, pend.k, pend.value, server_is_writing)
                 ELSE [store |-> store, ran |-> FALSE,
                       cbk |-> [flag |-> server_is_writing, msgs |-> <<>>]]
            o == AnswerStatus(caller_function, caller_metadata_ptr,
                              Append(pend.ops, "writeValue"), pend.dec, st, w.store)
        IN /\ store' = w.store
           /\ server_is_writing' = w.cbk.flag
           /\ cb' = IF w.ran
                    THEN CallbackRun("dispatcher", pend.k, server_is_writing, w.cbk.msgs)
                    ELSE NoCallbackRun
           /\ last' = [last EXCEPT !.end = o.end, !.msgs = w.cbk.msgs \o o.msgs,
                                   !.ops = o.ops, !.st = st]
    /\ pc' = "idle"
    /\ pend' = NoFrame
    /\ caller_blocks' = ReleaseAfter("ok", caller_blocks)
    /\ UNCHANGED <<entity_type, caller_function, caller_metadata_ptr>>

\* a session of a remote peer writes the value of a node of the local server
PeerWrite ==
    /\ pc = "idle"
    /\ ~entity_type
    /\ \E k \in NodeKeys, v \in PeerValues :
        /\ HoldsValue(store, k)
        /\ LET w == StoreWriteValue(store, k, v, server_is_writing) IN
            /\ store' = w.store
            /\ server_is_writing' = w.cbk.flag
            /\ cb' = IF w.ran THEN CallbackRun("peer", k, server_is_writing, w.cbk.msgs)
                     ELSE NoCallbackRun
    /\ UNCHANGED <<entity_type, pc, pend, last, caller_function, caller_metadata_ptr,
                   caller_blocks>>

Next ==
    \/ handle_caller_metadata("protocol")
    \/ HandleSimple("protocol")
    \/ HandleReadNodeValueByIndex("protocol")
    \/ HandleWriteNodeValue("protocol")
    \/ HandleWriteNodeBlankArray("protocol")
    \/ StoreWriteReturns
    \/ PeerWrite

Spec == Init /\ [][Next]_vars

NextCmd ==
    \/ handle_caller_metadata("command")
    \/ HandleTest
    \/ HandleSimple("command")
    \/ HandleWriteNodeArrayDimensions
    \/ HandleReadAttr
    \/ HandleReadNodeValue("command")
    \/ HandleReadNodeValueByIndex("command")
    \/ HandleReadNodeValueByDataType
    \/ HandleWriteNodeValue("command")
    \/ HandleWriteNodeBlankArray("command")
    \/ StoreWriteReturns

SpecCmd == Init /\ [][NextCmd]_vars

\* a discovery handler of the client answers with the array the library handed it:
\* send_data_response(data, data_type, data_len)
HandleDiscovery ==
    \E h \in {"handle_find_servers_on_network", "handle_find_servers",
              "handle_get_endpoints"} :
        /\ Running(h)
        /\ entity_type
        /\ LET data_type == CASE h = "handle_find_servers_on_network" -> 8
                             [] h = "handle_find_servers" -> 9
                             [] OTHER -> 10
           IN \E data \in Collections(data_type) :
                Done(h, data,
                     WithAccess(Out("ok", <<send_data_response(caller_function,
                                               caller_metadata_ptr,
                                               encode_data_response(data_type, data))>>,
                                    <<>>, 0, NoStatus, store), EmptyValue, {}))

\* a subscription callback of the client runs between two commands and sends its
\* event
SubscriptionEvent ==
    /\ pc = "idle"
    /\ entity_type
    /\ \E subscription_id \in 0..MaxVal, monitored_id \in 0..MaxVal, v \in PeerValues :
        \E m \in {send_subscription_timeout_response(subscription_id, 27),
                  send_subscription_deleted_response(subscription_id, 27),
                  send_monitored_item_response(subscription_id, monitored_id, v, 29),
                  send_monitored_item_delete_response(subscription_id, monitored_id)} :
            cb' = CallbackRun("subscription", 0, server_is_writing, <<m>>)
    /\ UNCHANGED <<entity_type, server_is_writing, store, pc, pend, last, caller_function,
                   caller_metadata_ptr, caller_blocks>>

NextSend ==
    \/ handle_caller_metadata("events")
    \/ HandleSimple("events")
    \/ HandleWriteNodeBlankArray("events")
    \/ StoreWriteReturns
    \/ HandleReadNodeValue("events")
    \/ HandleReadAttr
    \/ HandleDiscovery
    \/ SubscriptionEvent
    \/ PeerWrite

SpecSend == Init /\ [][NextSend]_vars

(***************************************************************************)
(* Properties of the write-echo guard, under Spec.                         *)
(***************************************************************************)
Notifications(msgs) == {i \in 1..Len(msgs) : IsWriteNotification(msgs[i])}
IssuedStoreWrite == \E i \in 1..Len(last.ops) : last.ops[i] = "writeValue"

\* C1: a value write the dispatcher itself issues against a local target
\* (handle_write_node_value or handle_write_node_blank_array with entity_type =
\* false) has send_write_response forward no write notification for that write:
\* the callback the write runs sends nothing, and the handler's output holds no
\* notification.
C1_LocalWriteNotEchoed ==
    /\ cb.origin = "dispatcher" => cb.msgs = <<>>
    /\ (~entity_type /\ last.h \in ValueWriters /\ IssuedStoreWrite)
           => Notifications(last.msgs) = {}

\* a local write the store accepted on a node with the callback, which ran and was
\* suppressed
C1_Witness ==
    /\ ~entity_type
    /\ last.h = "handle_write_node_value"
    /\ last.end = "ok"
    /\ cb.origin = "dispatcher"
    /\ cb.observed
    /\ cb.msgs = <<>>

\* C2: a value write a remote peer triggers on a local node with the write
\* callback registered is forwarded as one {:write, node_id, value} notification,
\* whatever commands ran before it.
C2_PeerWriteForwarded ==
    cb.origin = "peer" =>
        /\ Len(cb.msgs) = 1
        /\ IsWriteNotification(cb.msgs[1])
        /\ cb.msgs[1] = send_write_data_response(NumericId(cb.node), store[cb.node].value)

\* C3: server_is_writing starts false; it becomes true only in the step in which a
\* value-write handler of a server (local target) enters the store's write, and
\* that step always sets it; a client (remote target) never sets it; it becomes
\* false only in a step in which send_write_response ran and found it true, and
\* such a run always clears it; no other step changes it.
C3_FlagStep ==
    /\ (server_is_writing' # server_is_writing) =>
          \/ /\ server_is_writing'
             /\ ~entity_type
             /\ pc = "dispatch" /\ pc' = "in_write"
             /\ pend'.h \in ValueWriters
          \/ /\ ~server_is_writing'
             /\ cb'.origin # "none"
             /\ cb'.observed
    /\ (pc = "dispatch" /\ pc' = "in_write" /\ ~entity_type) => server_is_writing'
    /\ (cb'.origin # "none" /\ cb'.observed) => ~server_is_writing'

C3_FlagDiscipline == (server_is_writing = FALSE) /\ [][C3_FlagStep]_vars

\* the handler of a server is inside the store's write with the flag set
C3_Witness == pc = "in_write" /\ ~entity_type /\ server_is_writing /\ pend.h \in ValueWriters

(***************************************************************************)
(* Properties of the command handlers, under SpecCmd.                      *)
(***************************************************************************)
\* a handler invocation is over
Returned == pc \in {"idle", "aborted"} /\ last.h # "" /\ last.end # "none"
Responses(msgs) == {i \in 1..Len(msgs) : IsResponse(msgs[i])}

\* C4: every handler invocation ends in success, application error or the fatal
\* abort, and one that does not abort has emitted exactly one response.
C4_OneResponse ==
    Returned =>
        /\ last.end \in {"ok", "error", "abort"}
        /\ last.end # "abort" => Cardinality(Responses(last.msgs)) = 1

\* C5: whenever the Node Store operation of a command returned a status other than
\* Good, the command has emitted exactly the error response carrying the textual
\* mnemonic of that status, and no ok response.
C5_StatusSurfaced ==
    (Returned /\ last.st \notin {NoStatus, UA_STATUSCODE_GOOD}) =>
        /\ Len(last.msgs) = 1
        /\ IsErrorStatus(last.msgs[1], last.st)

UserAttributeWriters ==
    {"handle_write_node_write_mask", "handle_write_node_is_abstract",
     "handle_write_node_value_rank", "handle_write_node_access_level",
     "handle_write_node_minimum_sampling_interval", "handle_write_node_historizing",
     "handle_write_node_executable", "handle_write_node_event_notifier"}

\* the last command was one of the attribute writers with a well-formed 2-tuple
\* whose user-data field has the wrong term type
WrongAttributeField ==
    /\ last.h \in UserAttributeWriters
    /\ ~TupleHeaderFails(last.req, 2)
    /\ ~assemble_node_id(Elem(last.req, 1)).abort
    /\ ~FieldDecodes(HandlerPlan(last.h)[2], Elem(last.req, 2))

NumericKinds ==
    {"Boolean", "SByte", "Byte", "Int16", "UInt16", "Int32", "UInt32", "Int64",
     "UInt64", "Float", "Double", "DateTime", "StatusCode"}

\* the last command was a write value with a well-formed 4-tuple in which exactly
\* one of data_type, data_index and the numeric payload has the wrong term type
WrongWriteValueHeaderField ==
    /\ last.h = "handle_write_node_value"
    /\ ~TupleHeaderFails(last.req, 4)
    /\ ~assemble_node_id(Elem(last.req, 1)).abort
    /\ \/ ~ei_decode_ulong(Elem(last.req, 2)) /\ ei_decode_ulong(Elem(last.req, 3))
       \/ ei_decode_ulong(Elem(last.req, 2)) /\ ~ei_decode_ulong(Elem(last.req, 3))

WrongWriteValuePayload ==
    /\ last.h = "handle_write_node_value"
    /\ ~TupleHeaderFails(last.req, 4)
    /\ ~assemble_node_id(Elem(last.req, 1)).abort
    /\ ei_decode_ulong(Elem(last.req, 2))
    /\ ei_decode_ulong(Elem(last.req, 3))
    /\ KindOfDataType(Elem(last.req, 2).n) \in NumericKinds
    /\ PayloadDecode(KindOfDataType(Elem(last.req, 2).n), Elem(last.req, 4)) = "einval"

AnsweredEinval ==
    /\ pc = "idle"
    /\ last.end = "error"
    /\ Len(last.msgs) = 1
    /\ IsErrorAtom(last.msgs[1], "einval")

ExpectedArity(h) == IF h \in ReadAttrHandlers THEN 3 ELSE HandlerArity(h)

\* C7: for every handler that takes a tuple, a tuple whose arity differs from the
\* one the handler expects leads to the fatal abort: no response emitted, no Node
\* Store operation invoked, no argument decoded after the tuple header.
C7_WrongArityAborts ==
    (last.h \notin {"", "handle_test"} /\ last.req.t = "tuple"
        /\ last.req.n # ExpectedArity(last.h)) =>
        /\ pc = "aborted"
        /\ last.end = "abort"
        /\ last.msgs = <<>>
        /\ last.ops = <<>>
        /\ last.dec = 0

\* a 4-tuple reached handle_add_variable_node, which takes a 5-tuple
C7_Witness ==
    /\ last.h = "handle_add_variable_node"
    /\ last.req.t = "tuple"
    /\ last.req.n = 4
    /\ pc = "aborted"

\* the payload shape each discriminant selects
ShapeFits(node_type, payload) ==
    CASE node_type = 0 -> ei_decode_ulong(payload)
      [] node_type = 1 -> IsBinaryExt(payload)
      [] node_type = 2 -> GuidDecodes(payload)
      [] node_type = 3 -> IsBinaryExt(payload)
      [] OTHER -> FALSE

ShapeName(node_type) ==
    CASE node_type = 0 -> "Numeric"
      [] node_type = 1 -> "String"
      [] node_type = 2 -> "GUID"
      [] node_type = 3 -> "ByteString"
      [] OTHER -> "none"

\* a 3-tuple whose discriminant and namespace index are unsigned integers
TaggedIdentifier(t) ==
    ~TupleHeaderFails(t, 3) /\ ei_decode_ulong(Elem(t, 1)) /\ ei_decode_ulong(Elem(t, 2))

\* the identifier term the last command gave to assemble_node_id (the argument of
\* an attribute reader) and to assemble_expanded_node_id (the third field of
\* handle_delete_reference, reached when the first two fields decoded)
NodeIdArgument == last.h \in ReadAttrHandlers /\ last.end # "none"
ExpandedNodeIdArgument ==
    /\ last.h = "handle_delete_reference"
    /\ last.end # "none"
    /\ ~TupleHeaderFails(last.req, 5)
    /\ ~assemble_node_id(Elem(last.req, 1)).abort
    /\ ~assemble_node_id(Elem(last.req, 2)).abort

\* C8: assemble_node_id and assemble_expanded_node_id accept the discriminants 0, 1,
\* 2 and 3 and no other; each selects one payload shape (numeric, string, GUID
\* 4-tuple, byte string) and yields the identifier of that type exactly when the
\* payload has that shape; any other discriminant aborts the process: the handler
\* gets no identifier, invokes no store operation and emits no response.
C8_FourDiscriminants ==
    /\ (NodeIdArgument /\ TaggedIdentifier(last.req)) =>
          LET d == Elem(last.req, 1).n
              a == assemble_node_id(last.req)
          IN /\ a.abort <=> ~(d \in 0..3 /\ ShapeFits(d, Elem(last.req, 3)))
             /\ ~a.abort => a.idType = ShapeName(d) /\ last.dec = 1
             /\ a.abort => /\ pc = "aborted" /\ last.end = "abort"
                           /\ last.msgs = <<>> /\ last.ops = <<>> /\ last.dec = 0
    /\ (ExpandedNodeIdArgument /\ TaggedIdentifier(Elem(last.req, 3))) =>
          LET t == Elem(last.req, 3)
              d == Elem(t, 1).n
              a == assemble_expanded_node_id(t)
          IN /\ a.abort <=> ~(d \in 0..3 /\ ShapeFits(d, Elem(t, 3)))
             /\ ~a.abort => a.idType = ShapeName(d) /\ last.dec > 2
             /\ a.abort => /\ pc = "aborted" /\ last.end = "abort"
                           /\ last.msgs = <<>> /\ last.ops = <<>> /\ last.dec = 2

\* an attribute reader was given an identifier with discriminant 4 and the process
\* aborted in assemble_node_id
C8_Witness ==
    /\ NodeIdArgument
    /\ TaggedIdentifier(last.req)
    /\ Elem(last.req, 1).n = 4
    /\ pc = "aborted"

IndexedValueCommands ==
    {"handle_read_node_value", "handle_read_node_value_by_index",
     "handle_write_node_value"}

\* the data_index argument of the last command
IndexArgument ==
    IF last.h = "handle_write_node_value" THEN Elem(last.req, 3) ELSE Elem(last.req, 2)

\* C9: when a value read or value write that carries an index i reads an array
\* Value of length n from the store and i >= n, the command answers the error
\* BadTypeMismatch, and it accesses no element outside 0..n-1.
C9_IndexOutOfRange ==
    (Returned /\ last.h \in IndexedValueCommands /\ last.pre.tag = "array"
        /\ ei_decode_ulong(IndexArgument) /\ IndexArgument.n >= arrayLength(last.pre)) =>
        /\ Len(last.msgs) = 1
        /\ IsErrorStatus(last.msgs[1], UA_STATUSCODE_BADTYPEMISMATCH)
        /\ \A j \in last.acc : j < arrayLength(last.pre)

\* C10: when the store answers a value read with Good and an empty Value, each of
\* handle_read_node_value, handle_read_node_value_by_index and
\* handle_read_node_value_by_data_type answers {:error, nil}.
C10_EmptyValueIsNil ==
    (Returned /\ last.h \in ValueReaders /\ last.st = UA_STATUSCODE_GOOD
        /\ UA_Variant_isEmpty(last.pre)) =>
        /\ Len(last.msgs) = 1
        /\ IsErrorAtom(last.msgs[1], "nil")

(***************************************************************************)
(* Properties of the value write and of the attribute writes.              *)
(***************************************************************************)
\* the last command was a write value that reached the store's write with the
\* current Value of the target read as empty
WroteOverEmpty ==
    /\ Returned
    /\ last.h = "handle_write_node_value"
    /\ IssuedStoreWrite
    /\ UA_Variant_isEmpty(last.pre)
    /\ KindOfDataType(Elem(last.req, 2).n) \in SupportedKinds

\* C11: a write value of a supported kind K with payload v and any data_index on a
\* node whose current Value is empty, which the store accepts, leaves the node
\* holding the scalar K(v) and answers ok with no payload.
C11_EmptyPromotedToScalar ==
    (WroteOverEmpty /\ last.st = UA_STATUSCODE_GOOD) =>
        /\ store[NodeKey(assemble_node_id(Elem(last.req, 1)))].value
              = Scalar(KindOfDataType(Elem(last.req, 2).n), Elem(last.req, 4).n)
        /\ Len(last.msgs) = 1
        /\ IsOk(last.msgs[1])

\* the attribute each of the two boolean attribute writers is the writer of
OwnAttribute(h) ==
    IF h = "handle_write_node_historizing" THEN "historizing" ELSE "executable"

\* C12: a write-attribute command the store accepted has written the attribute of
\* its own kind: after a successful write historizing or write executable with
\* datum v, the attribute of that name of the target node is v (a read of it
\* returns v), and write executable does not touch historizing.
C12_OwnAttributeWritten ==
    (Returned /\ last.end = "ok"
        /\ last.h \in {"handle_write_node_historizing", "handle_write_node_executable"}) =>
        store[NodeKey(assemble_node_id(Elem(last.req, 1)))][OwnAttribute(last.h)]
            = Elem(last.req, 2).n

\* the last command was a write value whose tuple, identifier, data_type and
\* data_index decoded; Target is the node it names
WriteValueHeaderDecoded ==
    /\ Returned
    /\ last.h = "handle_write_node_value"
    /\ ~TupleHeaderFails(last.req, 4)
    /\ ~assemble_node_id(Elem(last.req, 1)).abort
    /\ ei_decode_ulong(Elem(last.req, 2))
    /\ ei_decode_ulong(Elem(last.req, 3))
Target == NodeKey(assemble_node_id(Elem(last.req, 1)))

\* a payload that is no binary where the kind is String: its decode is fatal
FatalPayload ==
    KindOfDataType(Elem(last.req, 2).n) = "String" /\ ~IsBinaryExt(Elem(last.req, 4))

\* C13: handle_write_node_value reads and classifies the current Value before it
\* decodes the payload: on a target the store cannot read, and on an array target
\* with the index out of range, the answer is the error of the read or
\* BadTypeMismatch whatever the payload is; an abort happens only after a Good read
\* and the classification; and a payload whose decode is fatal does abort then.
C13_ClassifiedBeforePayload ==
    WriteValueHeaderDecoded =>
        /\ ~HoldsValue(store, Target) =>
              /\ Len(last.msgs) = 1
              /\ IsErrorStatus(last.msgs[1], ReadValueStatus(store, Target, UA_STATUSCODE_GOOD))
        /\ (HoldsValue(store, Target) /\ store[Target].value.tag = "array"
               /\ arrayLength(store[Target].value) <= Elem(last.req, 3).n) =>
              /\ Len(last.msgs) = 1
              /\ IsErrorStatus(last.msgs[1], IF last.st = UA_STATUSCODE_GOOD
                                             THEN UA_STATUSCODE_BADTYPEMISMATCH
                                             ELSE last.st)
        /\ last.end = "abort" =>
              /\ last.ops = <<"readValue">>
              /\ last.st = UA_STATUSCODE_GOOD
              /\ last.dec >= 3
              /\ ~(last.pre.tag = "array" /\ arrayLength(last.pre) <= Elem(last.req, 3).n)
        /\ FatalPayload =>
              /\ ~IssuedStoreWrite
              /\ last.ops = <<"readValue">>
              /\ (last.st = UA_STATUSCODE_GOOD
                     /\ ~(last.pre.tag = "array"
                            /\ arrayLength(last.pre) <= Elem(last.req, 3).n))
                    => last.end = "abort"

\* a write value with a payload whose decode would be fatal, on a node the store
\* does not know: answered with the status of the read
C13_Witness ==
    /\ WriteValueHeaderDecoded
    /\ FatalPayload
    /\ ~NodeExists(store, Target)
    /\ Len(last.msgs) = 1
    /\ IsErrorStatus(last.msgs[1], BadNodeIdUnknown)

(***************************************************************************)
(* Properties of the encoders.                                             *)
(***************************************************************************)
\* the identifier the last attribute reader assembled from its argument
AssembledArgument == assemble_node_id(last.req)

\* C14: decoding with a kind's decoder what the kind's encoder wrote gives the
\* value back: for the identifier an attribute reader was given, assemble_node_id
\* of the term encode_node_id writes is that identifier; for every integer element
\* of a Value in the store, the payload decoder of its kind accepts the term
\* encode_variant_scalar_struct writes and reads the element back.
C14_RoundTrip ==
    /\ (NodeIdArgument /\ ~AssembledArgument.abort) =>
          assemble_node_id(DecodeTerm(encode_node_id(AssembledArgument))) = AssembledArgument
    /\ \A k \in NodeKeys :
          \A i \in 1..Len(store[k].value.data) :
              store[k].value.kind \in {"Int32", "Int64"} =>
                  LET t == DecodeTerm(encode_variant_scalar_struct(store[k].value, i - 1))
                  IN /\ PayloadDecode(store[k].value.kind, t) = "ok"
                     /\ t.n = store[k].value.data[i]

\* the null marker
NullMarker == <<Tok("atom", 0, "nil")>>

\* C15: encode_variant_struct on an empty Value yields the null marker nil, and for
\* every supported kind the encoding of element 0 of a 1-element array is the
\* encoding of the scalar of that kind with the same datum: so for the Values of
\* the store, and so in the answer of a read of the whole Value.
C15_NullMarkerAndElementZero ==
    /\ encode_variant_struct(EmptyValue) = NullMarker
    /\ \A kind \in SupportedKinds, x \in 0..MaxVal :
          /\ encode_variant_scalar_struct(Array(kind, <<x>>), 0)
                = encode_variant_struct(Scalar(kind, x))
          /\ encode_variant_struct(Array(kind, <<x>>))
                = <<Tok("list", 1, "")>> \o encode_variant_struct(Scalar(kind, x))
                      \o <<Tok("nil_list", 0, "")>>
    /\ \A k \in NodeKeys :
          LET v == store[k].value IN
          /\ UA_Variant_isEmpty(v) => encode_variant_struct(v) = NullMarker
          /\ (v.tag = "array" /\ Len(v.data) = 1) =>
                encode_variant_scalar_struct(v, 0)
                    = encode_variant_struct(Scalar(v.kind, v.data[1]))
    /\ (Returned /\ last.h = "handle_read_node_value" /\ last.end = "ok") =>
          /\ UA_Variant_isEmpty(last.pre) => OkPayload(last.msgs[1]) = NullMarker
          /\ (last.pre.tag = "array" /\ Len(last.pre.data) = 1) =>
                OkPayload(last.msgs[1])
                    = <<Tok("list", 1, "")>>
                          \o encode_variant_struct(Scalar(last.pre.kind, last.pre.data[1]))
                          \o <<Tok("nil_list", 0, "")>>

\* a read of the whole Value of a node that holds a 1-element array was answered
C15_Witness ==
    /\ Returned
    /\ last.h = "handle_read_node_value"
    /\ last.end = "ok"
    /\ last.pre.tag = "array"
    /\ Len(last.pre.data) = 1

(***************************************************************************)
(* Properties of the collection encoders and of the unsolicited messages,  *)
(* under SpecSend.                                                         *)
(***************************************************************************)
\* the index after the count terms that start at item i of toks as a reader of the
\* buffer takes them off it, 0 when they are not there: a list header of n > 0
\* is followed by n terms and the empty list, a list header of 0 is the empty
\* list itself, a map header of n by n keys and n values, a tuple header of n by
\* n terms
RECURSIVE TermsEnd(_, _, _)
TermsEnd(toks, i, count) ==
    IF count = 0 THEN i
    ELSE IF i = 0 \/ i > Len(toks) THEN 0
    ELSE LET after ==
                 CASE toks[i].t = "list" /\ toks[i].n > 0 ->
                        LET e == TermsEnd(toks, i + 1, toks[i].n)
                        IN IF e # 0 /\ e <= Len(toks) /\ toks[e].t = "nil_list"
                           THEN e + 1 ELSE 0
                   [] toks[i].t = "map" -> TermsEnd(toks, i + 1, 2 * toks[i].n)
                   [] toks[i].t = "tuple" -> TermsEnd(toks, i + 1, toks[i].n)
                   [] OTHER -> i + 1
         IN TermsEnd(toks, after, count - 1)

\* the payloads that are collections: those of the discovery handlers, of the
\* array dimensions read and of the value read of a node that holds an array
ReadTarget == NodeKey(assemble_node_id(Elem(last.req, 1)))
CollectionAnswered ==
    /\ Returned
    /\ Len(last.msgs) = 1
    /\ IsOkData(last.msgs[1])
    /\ \/ last.h \in {"handle_find_servers_on_network", "handle_find_servers",
                      "handle_get_endpoints", "handle_read_node_array_dimensions"}
       \/ /\ last.h = "handle_read_node_value"
          /\ ~UA_Variant_isEmpty(store[ReadTarget].value)
          /\ ~UA_Variant_isScalar(store[ReadTarget].value)

\* header, the encodings of the elements in index order, terminator unless empty
Listed(elements) ==
    <<Tok("list", Len(elements), "")>> \o Flatten(elements)
        \o (IF Len(elements) > 0 THEN <<Tok("nil_list", 0, "")>> ELSE <<>>)

\* what the encoder of data_type writes for the one element x, between the header
\* and the terminator
ElementEncoding(data_type, x) ==
    LET one == encode_data_response(data_type, <<x>>) IN SubSeq(one, 2, Len(one) - 1)

ListedArray(data_type, data) ==
    Listed([i \in 1..Len(data) |-> ElementEncoding(data_type, data[i])])

\* C16: every collection encoder (array dimensions, variant arrays, endpoint,
\* application-description and server-on-network lists with their nested lists)
\* emits for length 0 only the length header and no terminator, and for length
\* N > 0 the length header, exactly N element encodings in index order and exactly
\* one terminator
C16_CollectionShape ==
    CollectionAnswered =>
        LET p == OkPayload(last.msgs[1]) IN
        /\ TermsEnd(p, 1, 1) = Len(p) + 1
        /\ last.h = "handle_find_servers_on_network" => p = ListedArray(8, last.req)
        /\ last.h = "handle_find_servers" => p = ListedArray(9, last.req)
        /\ last.h = "handle_get_endpoints" => p = ListedArray(10, last.req)
        /\ last.h = "handle_read_node_array_dimensions" =>
                \E dims \in Collections(28) : p = ListedArray(28, dims)
        /\ last.h = "handle_read_node_value" =>
                LET v == store[ReadTarget].value IN
                p = Listed([i \in 1..arrayLength(v) |->
                               encode_variant_scalar_struct(v, i - 1)])

\* a list of MaxLen servers, one with capabilities and one without, was answered
C16_Witness ==
    /\ CollectionAnswered
    /\ last.h = "handle_find_servers_on_network"
    /\ Len(last.req) = MaxLen
    /\ \E i, j \in 1..Len(last.req) :
        /\ last.req[i].serverCapabilities = <<>>
        /\ Len(last.req[j].serverCapabilities) = MaxLen

\* the messages the callbacks of the latest step sent are one term after the
\* version marker, and none holds caller metadata
OneTermNoToken(m) ==
    /\ Len(m) >= 6
    /\ SubSeq(m, 1, 3) = Header
    /\ TermsEnd(m, 4, 1) = Len(m) + 1
    /\ \A i \in 1..Len(m) : m[i].t # "raw"

CommandNames == Commands("command") \cup Commands("protocol") \cup Commands("events")

CommandResponses == {i \in 1..Len(last.msgs) : ~IsWriteNotification(last.msgs[i])}

\* C18: every command response (send_ok_response, send_data_response,
\* send_error_response, send_opex_response) has the same layout: reserved
\* length-prefix region, the response-kind byte, the version marker, then a
\* 3-element structure made of the caller correlation token followed by exactly
\* one of ok, {ok, value} or {error, reason}, where reason is a mnemonic atom or
\* the status mnemonic string
C18_ResponseLayout ==
    \A i \in CommandResponses :
        LET m == last.msgs[i] IN
        /\ Len(m) >= 7
        /\ m[1] = Tok("size", 2, "")
        /\ m[2] = Tok("byte", 0, "r")
        /\ m[3] = Tok("version", 131, "")
        /\ m[4] = Tok("tuple", 3, "")
        /\ m[5].t = "atom" /\ m[6].t = "raw"
        /\ TermsEnd(m, 4, 1) = Len(m) + 1
        /\ \/ m[7] = Tok("atom", 0, "ok")
           \/ m[7] = Tok("tuple", 2, "") /\ m[8] = Tok("atom", 0, "ok")
           \/ /\ m[7] = Tok("tuple", 2, "") /\ m[8] = Tok("atom", 0, "error")
              /\ \/ m[9].t = "atom" /\ m[9].s \in {"einval", "eagain", "nil"}
                 \/ \E code \in {UA_STATUSCODE_BADTYPEMISMATCH, BadNodeIdUnknown,
                                  BadNodeIdExists, BadAttributeIdInvalid,
                                  BadUserAccessDenied, BadNodeClassInvalid} :
                        m[9] = Tok("binary", 0, UA_StatusCode_name(code))

\* a command was answered {error, einval}
C18_Witness ==
    /\ Returned
    /\ Len(last.msgs) = 1
    /\ IsErrorAtom(last.msgs[1], "einval")

\* C19: the caller metadata written into a response by encode_caller_metadata is
\* byte for byte the metadata term captured by handle_caller_metadata for the
\* command being answered, preceded by that command's name; it is never the
\* metadata of an earlier or later command
C19_OwnMetadata ==
    \A i \in CommandResponses :
        /\ Len(last.msgs[i]) >= 6
        /\ last.msgs[i][5] = Tok("atom", 0, last.h)
        /\ last.msgs[i][6] = Tok("raw", last.meta, "")

\* a value read that came with the last of the metadata terms was answered; the
\* commands that built the node came before it
C19_Witness ==
    /\ Returned
    /\ last.h = "handle_read_node_value"
    /\ last.meta = MaxMeta + 1
    /\ Len(last.msgs) = 1
    /\ IsOkData(last.msgs[1])

\* the step ends a command whose handler returned
CommandReturns == pc \in {"dispatch", "in_write"} /\ pc' = "idle"

\* C20: over any sequence of commands, the CallerContext is captured exactly once
\* per command at dispatch entry (handle_caller_metadata) and consumed and
\* released exactly once when that command's response is emitted
\* (free_caller_metadata); it is never released twice, never used after release,
\* and never left unreleased when the next command is captured
C20_Step ==
    /\ caller_blocks' > caller_blocks =>
            pc = "idle" /\ caller_blocks = 0 /\ caller_blocks' <= 2
    /\ CommandReturns =>
            /\ Cardinality(CommandResponses') = 1
            /\ caller_blocks = 2 /\ caller_blocks' = 0
    /\ caller_blocks' < caller_blocks => CommandReturns
    /\ (last' # last /\ CommandResponses' # {}) => caller_blocks = 2

C20_ContextLifecycle == [][C20_Step]_vars

(***************************************************************************)
(* Ownership of the assembled identifiers.                                 *)
(***************************************************************************)
\* the identifiers (UA_NodeId, UA_ExpandedNodeId, UA_QualifiedName) a handler has
\* assembled once dec of its arguments are decoded: the ones its plan holds among
\* them; the value and attribute readers and writers assemble node_id first
IdentifiersAssembled(h, dec) ==
    IF h \in SimpleHandlers
    THEN Cardinality({i \in 1..dec : i <= Len(HandlerPlan(h))
                                      /\ HandlerPlan(h)[i] \in {"node", "xnode", "qname"}})
    ELSE IF h = "handle_test" \/ dec = 0 THEN 0 ELSE 1

\* the UA_*_clear calls made on them before the handler returns: the clears
\* follow the Node Store call, and the return after send_error_response("einval")
\* comes before them
IdentifiersCleared(h, dec, msgs) ==
    IF \E i \in 1..Len(msgs) : IsErrorAtom(msgs[i], "einval") THEN 0
    ELSE IdentifiersAssembled(h, dec)

\* C21: every NodeIdentifier, ExpandedNodeIdentifier and QualifiedName assembled
\* during a command is released exactly once before the command ends, on every
\* non-aborting path: success, Node Store error and validation error (einval)
C21_IdentifiersReleased ==
    (Returned /\ last.end \in {"ok", "error", "silent"}) =>
        IdentifiersCleared(last.h, last.dec, last.msgs)
            = IdentifiersAssembled(last.h, last.dec)

(***************************************************************************)
(* Properties of the value reads and writes, under SpecCmd.                *)
(***************************************************************************)
\* a typed read got a Value from the Node Store and returned
TypedReadAnswered ==
    /\ Returned
    /\ last.h = "handle_read_node_value_by_data_type"
    /\ last.end \in {"ok", "error"}
    /\ last.ops = <<"readValue">>
    /\ last.st = UA_STATUSCODE_GOOD

\* C22: handle_read_node_value_by_data_type answers the application error eagain
\* whenever the kind of the Value held by the Node Store differs from the
\* caller-supplied data_type, and answers ok with the value only when the two
\* kinds agree
C22_TypedReadChecksKind ==
    TypedReadAnswered =>
        LET wanted == KindOfDataType(Elem(last.req, 2).n)
            m == last.msgs[1]
        IN /\ Len(last.msgs) = 1
           /\ last.pre.kind # wanted => IsErrorAtom(m, "eagain")
           /\ IsOkData(m) => last.pre.kind = wanted

(* The dimension list of the two array handlers. *)
DimensionHandlers ==
    {"handle_write_node_array_dimensions", "handle_write_node_blank_array"}

\* the fields before the dimension list decode, the declared size is read, and
\* the list is a tuple of another arity
DimensionArityDiffers(h, req) ==
    LET blank == h = "handle_write_node_blank_array"
        size == Elem(req, IF blank THEN 3 ELSE 2)
        list == Elem(req, IF blank THEN 5 ELSE 3)
    IN /\ h \in DimensionHandlers
       /\ ~TupleHeaderFails(req, IF blank THEN 5 ELSE 3)
       /\ Elem(req, 1) \in KnownNodeTerms
       /\ ei_decode_ulong(size)
       /\ blank => /\ ei_decode_ulong(Elem(req, 2))
                   /\ ei_decode_ulong(Elem(req, 4))
                   /\ KindOfDataType(Elem(req, 2).n) \in BlankArrayKinds
       /\ list.t = "tuple"
       /\ list.n # size.n

\* C23: in handle_write_node_array_dimensions and handle_write_node_blank_array
\* a dimension tuple whose arity differs from the declared array_dimension_size
\* ends the process: the step issues no store operation, leaves the Node Store
\* and server_is_writing as they were and sends nothing.
C23_ArityMismatchAborts ==
    [][(pc = "dispatch" /\ pc' # "dispatch"
        /\ DimensionArityDiffers(last'.h, last'.req))
       => /\ pc' = "aborted"
          /\ last'.end = "abort"
          /\ last'.ops = <<>>
          /\ last'.msgs = <<>>
          /\ cb' = NoCallbackRun
          /\ store' = store
          /\ server_is_writing' = server_is_writing]_vars

\* a server was handed declared size 2 with a tuple of arity 3 by
\* handle_write_node_blank_array
C23_Witness ==
    /\ pc = "aborted"
    /\ ~entity_type
    /\ last.h = "handle_write_node_blank_array"
    /\ DimensionArityDiffers(last.h, last.req)
    /\ Elem(last.req, 3).n = 2
    /\ Elem(last.req, 5).n = 3
    /\ last.end = "abort"
    /\ ~server_is_writing

(* The node class read. *)
NodeClassRead ==
    /\ Returned
    /\ last.h = "handle_read_node_node_class"
    /\ last.ops = <<"readAttribute">>
    /\ last.st = UA_STATUSCODE_GOOD

ClassNames ==
    {"Unspecified", "Object", "Variable", "Method", "ObjectType", "VariableType",
     "ReferenceType", "DataType", "View"}

\* C24: handle_read_node_node_class, when the Node Store returns Good with node
\* class C, emits one ok response carrying the text name of C.  A local store
\* answers with the class of the node it holds, so for a node of class Variable
\* the payload is the text Variable; a remote server's class is one of the nine
\* names whenever the handler has answered.
C24_ClassNamed ==
    NodeClassRead =>
        /\ last.end \in {"ok", "silent"}
        /\ last.end = "ok" =>
               /\ Len(last.msgs) = 1
               /\ IsOkData(last.msgs[1])
               /\ \E name \in ClassNames :
                      OkPayload(last.msgs[1]) = <<Tok("string", 0, name)>>
        /\ ~entity_type =>
               LET cls == store[NodeKey(assemble_node_id(last.req))].cls IN
               /\ last.end = "ok"
               /\ cls \in ClassNames
               /\ OkPayload(last.msgs[1]) = <<Tok("string", 0, cls)>>

(* Errors raised by the handler's own validation. *)
\* the response is einval, or the BadTypeMismatch the handler raises over the
\* Value a Good read returned
LocalValidationError(l) ==
    /\ l.end = "error"
    /\ Len(l.msgs) = 1
    /\ \/ IsErrorAtom(l.msgs[1], "einval")
       \/ /\ IsErrorStatus(l.msgs[1], UA_STATUSCODE_BADTYPEMISMATCH)
          /\ l.st = UA_STATUSCODE_GOOD
          /\ l.ops = <<"readValue">>

\* C25: a command that ends in an error response raised by local validation
\* (einval for a malformed field, BadTypeMismatch for an out-of-range array
\* index) leaves the Node Store, and with it the target Value and its array
\* length, and server_is_writing as they were before the command.
C25_ValidationErrorChangesNothing ==
    [][(pc = "dispatch" /\ pc' = "idle" /\ LocalValidationError(last'))
       => /\ store' = store
          /\ server_is_writing' = server_is_writing]_vars

\* handle_write_node_value on a server answered BadTypeMismatch for an index past
\* the end of the array the node holds, and the array is what the handler read
C25_Witness ==
    /\ Returned
    /\ ~entity_type
    /\ last.h = "handle_write_node_value"
    /\ LocalValidationError(last)
    /\ IsErrorStatus(last.msgs[1], UA_STATUSCODE_BADTYPEMISMATCH)
    /\ last.pre.tag = "array"
    /\ Len(last.pre.data) > 0
    /\ Elem(last.req, 3).n >= Len(last.pre.data)
    /\ store[Target].value = last.pre
    /\ ~server_is_writing

(* The element store of an array-indexed value write. *)
\* handle_write_node_value found an array, an index inside it and a payload that
\* decodes, and has stored the element
IndexedArrayWrite ==
    /\ Returned
    /\ last.h = "handle_write_node_value"
    /\ last.pre.tag = "array"
    /\ Elem(last.req, 3).n < Len(last.pre.data)
    /\ last.dec = 4

\* C26: an array-indexed value write (target an array of element kind E and
\* length n, data_index i < n, payload kind K) changes only element i of the
\* array, and only when K equals E; when K differs from E no element of the
\* stored array is changed, and in no case is anything outside the array written.
C26_OnlyElementOfSameKind ==
    IndexedArrayWrite =>
        LET i == Elem(last.req, 3).n
            K == KindOfDataType(Elem(last.req, 2).n)
            E == last.pre.kind
            now == store[Target].value
        IN /\ \A j \in last.acc : j < Len(last.pre.data)
           /\ now.tag = "array"
           /\ now.kind = E
           /\ Len(now.data) = Len(last.pre.data)
           /\ \A j \in 1..Len(now.data) :
                  (j # i + 1 \/ K # E) => now.data[j] = last.pre.data[j]

(* A scalar target of the indexed commands. *)
ScalarTarget(h) ==
    /\ Returned
    /\ last.h = h
    /\ last.pre.tag = "scalar"
    /\ last.st = UA_STATUSCODE_GOOD

\* C27: when the target Value is a scalar the requested index is ignored:
\* handle_read_node_value_by_index returns the single element for every
\* data_index, and handle_write_node_value replaces the scalar with the new
\* scalar K(v) for every data_index, never answering BadTypeMismatch.
C27_ScalarIgnoresIndex ==
    /\ ScalarTarget("handle_read_node_value_by_index") =>
           /\ last.end = "ok"
           /\ Len(last.msgs) = 1
           /\ IsOkData(last.msgs[1])
           /\ OkPayload(last.msgs[1])
                  = encode_data_response(ByIndexCode(last.pre.kind), last.pre.data[1])
    /\ ScalarTarget("handle_write_node_value") =>
           /\ \A i \in 1..Len(last.msgs) :
                  ~IsErrorStatus(last.msgs[i], UA_STATUSCODE_BADTYPEMISMATCH)
           /\ last.end = "ok" =>
                  store[Target].value
                      = Scalar(KindOfDataType(Elem(last.req, 2).n), Elem(last.req, 4).n)

(* The blank array. *)
\* an array whose every element is the zero value of its kind
IsBlank(v) == v.tag = "array" /\ \A j \in 1..Len(v.data) : v.data[j] = 0

\* C28: after a successful handle_write_node_blank_array with kind K,
\* array_raw_size n and a dimension tuple d, the node's Value is an array of kind
\* K and length n whose every element is the zero value of K, with array
\* dimensions equal to d in order; an indexed read of such an array returns the
\* zero value for any i < n and BadTypeMismatch for any i >= n.
C28_BlankArray ==
    /\ (Returned /\ last.h = "handle_write_node_blank_array" /\ last.end = "ok") =>
           LET now == store[Target].value
               d == Elem(last.req, 5)
           IN /\ now.tag = "array"
              /\ now.kind = KindOfDataType(Elem(last.req, 2).n)
              /\ Len(now.data) = Elem(last.req, 4).n
              /\ IsBlank(now)
              /\ now.dims = [j \in 1..d.n |-> Elem(d, j).n]
    /\ (Returned /\ last.h = "handle_read_node_value_by_index" /\ IsBlank(last.pre)) =>
           LET i == Elem(last.req, 2).n
               m == last.msgs[1]
           IN /\ Len(last.msgs) = 1
              /\ i < Len(last.pre.data) =>
                     /\ IsOkData(m)
                     /\ OkPayload(m) = encode_data_response(ByIndexCode(last.pre.kind), 0)
              /\ i >= Len(last.pre.data) =>
                     IsErrorStatus(m, UA_STATUSCODE_BADTYPEMISMATCH)

\* an indexed read past the end of the blank array that node 1 holds with its
\* dimension tuple
C28_Witness ==
    /\ Returned
    /\ last.h = "handle_read_node_value_by_index"
    /\ IsBlank(last.pre)
    /\ last.pre.dims = <<MaxLen>>
    /\ Len(last.pre.data) = MaxLen
    /\ store[Target].value = last.pre
    /\ Elem(last.req, 2).n = MaxLen
    /\ IsErrorStatus(last.msgs[1], UA_STATUSCODE_BADTYPEMISMATCH)

(* The flag between commands. *)
\* C29: whenever no command is being executed (the response of the latest
\* command has been emitted, also that of a local value write the Node Store
\* rejected or that targeted a node without the write callback),
\* server_is_writing is false.
C29_FlagClearBetweenCommands ==
    (pc = "idle" /\ last.end \in {"none", "ok", "error", "silent"}) => ~server_is_writing

(* The boolean flags of the delete commands. *)
\* a flag of the command (delete_references; is_forward, delete_bidirectional)
\* does not decode as a boolean
FlagUndecoded(h, req) ==
    /\ h \in DeleteHandlers
    /\ ~TupleHeaderFails(req, HandlerArity(h))
    /\ \E i \in 1..Len(HandlerPlan(h)) :
          /\ HandlerPlan(h)[i] \in {"bool_u", "bool_i"}
          /\ ~ei_decode_boolean(Elem(req, i))

\* C30: in handle_delete_node and handle_delete_reference a boolean flag that
\* fails to decode is never passed to the Node Store: the command ends in an
\* error response or an abort without invoking deleteNode / deleteReference.
C30_UndecodedFlagNotPassed ==
    (Returned /\ FlagUndecoded(last.h, last.req)) =>
        /\ last.end \in {"error", "abort"}
        /\ last.ops = <<>>

====
